---- MODULE Spec2Model ----
(***************************************************************************)
(* Layout core of Bottled-Kraken (src/main.py): geometry normalisation     *)
(* (record_bbox), reading order (sort_records_reading_order), the          *)
(* wide-line pass of OCRWorker._ocr_one and the table export helpers       *)
(* (cluster_columns, group_rows_by_y, table_to_rows, _render_file).        *)
(*                                                                         *)
(* Numbers.  A raw coordinate of a kraken record (int or float) is held in *)
(* half pixels: the integer h stands for the number h/2, so int() is a     *)
(* real truncation.  Every bbox the code computes is in whole pixels.      *)
(* The float arithmetic of the percentile and of the 2-means loop is done  *)
(* exactly, on fractions <<numerator, denominator>> with denominator > 0.  *)
(* A text is a sequence of one-character strings.                          *)
(***************************************************************************)
EXTENDS Integers, Sequences, FiniteSets, TLC

VARIABLES
    im,                 \* the opened image: [page, size], size = <<w, h>>
    reading_direction,  \* OCRJob.reading_direction
    kr_records,         \* records yielded by rpred so far
    kr_sorted,          \* result of sort_records_reading_order
    record_views,       \* List[RecordView] built by the wide-line pass
    visual_rows,        \* the local rows of table_to_rows (group_rows_by_y)
    grid,               \* rows of cells computed by _render_file
    undo_stack,         \* TaskItem.undo_stack: snapshots of the record views
    redo_stack,         \* TaskItem.redo_stack
    pc,                 \* "rpred" | "emitted" | "rendered"
    queue_items,        \* MainWindow.queue_items: the status of every task, by path
    workers,            \* the OCRWorker threads created so far, the last is self.worker
    signals,            \* signals emitted by the workers, not yet handled by the window
    act_play            \* whether the start action is enabled

vars == <<im, reading_direction, kr_records, kr_sorted, record_views, visual_rows, grid,
          undo_stack, redo_stack, pc, queue_items, workers, signals, act_play>>

----------------------------------------------------------------------------
(* Bounds of the model *)

MaxLines == 5
MaxGeomLines == 2
MaxWideLines == 2
MaxViews == 3
MaxExtraLines == 2
MaxEdits == 1
MaxWorkers == 2
MaxSignals == 2

----------------------------------------------------------------------------
(* Program constants *)

TB_LR == 0
TB_RL == 1
BT_LR == 2
BT_RL == 3
READING_MODES == {TB_LR, TB_RL, BT_LR, BT_RL}

MIN_H == 14
MARGIN_Y == 10
x_threshold == 45
ROW_TOLERANCE == 12
POLYGON_PAD == 2
BASELINE_VPAD == 14
KMEANS_ITERATIONS == 8
UNDO_LIMIT == 300
STATUS_WAITING == 0
STATUS_PROCESSING == 1
STATUS_DONE == 2
STATUS_ERROR == 3

None == <<>>
NonePrediction == <<"None">>

(* A raw coordinate on which int() raises (float("nan"), a string). *)
NotANumber == -1000000

----------------------------------------------------------------------------
(* Generic helpers *)

Abs(n) == IF n >= 0 THEN n ELSE -n
Min2(a, b) == IF a <= b THEN a ELSE b
Max2(a, b) == IF a >= b THEN a ELSE b

RECURSIVE SeqSum(_)
SeqSum(s) == IF s = <<>> THEN 0 ELSE Head(s) + SeqSum(Tail(s))

RECURSIVE SeqMin(_)
SeqMin(s) == IF Len(s) = 1 THEN s[1] ELSE Min2(s[1], SeqMin(Tail(s)))

RECURSIVE SeqMax(_)
SeqMax(s) == IF Len(s) = 1 THEN s[1] ELSE Max2(s[1], SeqMax(Tail(s)))

RECURSIVE Flatten(_)
Flatten(ss) == IF ss = <<>> THEN <<>> ELSE Head(ss) \o Flatten(Tail(ss))

(* Python int() of a number held in half pixels: truncation toward zero. *)
PyInt(h) == IF h >= 0 THEN h \div 2 ELSE -((-h) \div 2)

(* Fractions <<n, d>>, d > 0. *)
Frac(n, d) == <<n, d>>
FracInt(n) == <<n, 1>>
FracSub(a, b) == <<a[1] * b[2] - b[1] * a[2], a[2] * b[2]>>
FracAdd(a, b) == <<a[1] * b[2] + b[1] * a[2], a[2] * b[2]>>
FracMul(a, b) == <<a[1] * b[1], a[2] * b[2]>>
FracAbs(a) == <<Abs(a[1]), a[2]>>
FracLe(a, b) == a[1] * b[2] <= b[1] * a[2]
FracLt(a, b) == a[1] * b[2] < b[1] * a[2]

RECURSIVE Gcd(_, _)
Gcd(a, b) == IF b = 0 THEN a ELSE Gcd(b, a % b)

FracNorm(a) ==
    LET g == Gcd(Abs(a[1]), a[2]) IN <<a[1] \div g, a[2] \div g>>

(* Python's sorted(seq, key=...) on integer key tuples: a stable sort.  An  *)
(* entry is <<key, item>>; keys are tuples of integers of one length.       *)
RECURSIVE KeyLess(_, _)
KeyLess(k1, k2) ==
    IF k1 = <<>> THEN FALSE
    ELSE IF k1[1] # k2[1] THEN k1[1] < k2[1]
    ELSE KeyLess(Tail(k1), Tail(k2))

RECURSIVE InsertStable(_, _)
InsertStable(e, s) ==
    IF s = <<>> THEN <<e>>
    ELSE IF KeyLess(e[1], s[1][1]) THEN <<e>> \o s
    ELSE <<s[1]>> \o InsertStable(e, Tail(s))

RECURSIVE SortEntries(_, _)
SortEntries(todo, done) ==
    IF todo = <<>> THEN done
    ELSE SortEntries(Tail(todo), InsertStable(Head(todo), done))

(* A sort that is not stable: an entry goes before the entries of equal key. *)
RECURSIVE InsertBeforeEqual(_, _)
InsertBeforeEqual(e, s) ==
    IF s = <<>> THEN <<e>>
    ELSE IF ~KeyLess(s[1][1], e[1]) THEN <<e>> \o s
    ELSE <<s[1]>> \o InsertBeforeEqual(e, Tail(s))

RECURSIVE SortEntriesUnstable(_, _)
SortEntriesUnstable(todo, done) ==
    IF todo = <<>> THEN done
    ELSE SortEntriesUnstable(Tail(todo), InsertBeforeEqual(Head(todo), done))

sorted_ties_reversed(entries) ==
    LET s == SortEntriesUnstable(entries, <<>>) IN [i \in 1..Len(s) |-> s[i][2]]

sorted(entries) ==
    LET s == SortEntries(entries, <<>>) IN [i \in 1..Len(s) |-> s[i][2]]

RECURSIVE SelectIdx(_, _, _)
SelectIdx(n, i, Keep) ==
    IF i > n THEN <<>>
    ELSE (IF i \in Keep THEN <<i>> ELSE <<>>) \o SelectIdx(n, i + 1, Keep)

----------------------------------------------------------------------------
(* GEOMETRY *)

(* A geometry attribute (boundary, polygon, baseline) of a record:          *)
(*   kind "none"     : the attribute is missing, None or empty              *)
(*   kind "flat"     : a list of (x, y) pairs, pts                          *)
(*   kind "contours" : a list of contours, pts a sequence of point lists    *)
(*   kind "other"    : a non-empty value of any other shape                 *)
NoGeom == [kind |-> "none", pts |-> <<>>]
FlatGeom(pts) == [kind |-> "flat", pts |-> pts]
ContourGeom(cs) == [kind |-> "contours", pts |-> cs]

_coerce_points(obj) ==
    CASE obj.kind = "flat" -> obj.pts
      [] obj.kind = "contours" -> Flatten(obj.pts)
      [] OTHER -> <<>>

_bbox_from_points(points, pad) ==
    IF points = <<>> THEN None
    ELSE LET xs == [i \in 1..Len(points) |-> points[i][1]]
             ys == [i \in 1..Len(points) |-> points[i][2]]
             x0 == PyInt(SeqMin(xs)) - pad
             y0 == PyInt(SeqMin(ys)) - pad
             x1 == PyInt(SeqMax(xs)) + pad
             y1 == PyInt(SeqMax(ys)) + pad
         IN IF x1 <= x0 \/ y1 <= y0 THEN None ELSE <<x0, y0, x1, y1>>

(* Lines 582-590: the explicit box, or None when it is absent, has not four *)
(* coordinates (the unpacking raises), has a coordinate int() raises on, or *)
(* is degenerate.                                                           *)
explicit_bbox(bbox) ==
    IF bbox = <<>> \/ Len(bbox) # 4 THEN None
    ELSE IF \E i \in 1..4 : bbox[i] = NotANumber THEN None
    ELSE LET x0 == PyInt(bbox[1])
             y0 == PyInt(bbox[2])
             x1 == PyInt(bbox[3])
             y1 == PyInt(bbox[4])
         IN IF x1 > x0 /\ y1 > y0 THEN <<x0, y0, x1, y1>> ELSE None

(* Lines 592-598 for one attribute, 600-604 for the baseline. *)
geom_bbox(obj) ==
    IF obj.kind = "none" THEN None
    ELSE _bbox_from_points(_coerce_points(obj), POLYGON_PAD)

(* Lines 592-598: the first of boundary, polygon that gives a box. *)
boundary_bbox(r) ==
    LET b1 == geom_bbox(r.boundary)
    IN IF b1 # None THEN b1 ELSE geom_bbox(r.polygon)

(* Lines 600-608. *)
baseline_bbox(r) ==
    LET bb == geom_bbox(r.baseline)
    IN IF bb # None
       THEN <<bb[1], bb[2] - BASELINE_VPAD, bb[3], bb[4] + BASELINE_VPAD>>
       ELSE None

(* The polygon looked at before the explicit box. *)
record_bbox_polygon_first(r) ==
    LET pb == boundary_bbox(r)
    IN IF pb # None THEN pb
       ELSE LET eb == explicit_bbox(r.bbox)
            IN IF eb # None THEN eb ELSE baseline_bbox(r)

(* Lines 581-608. *)
record_bbox(r) ==
    LET eb == explicit_bbox(r.bbox)
    IN IF eb # None THEN eb
       ELSE LET pb == boundary_bbox(r)
            IN IF pb # None THEN pb ELSE baseline_bbox(r)

----------------------------------------------------------------------------
(* READING ORDER.  A record object is referred to by its position in the   *)
(* input list: the functions below return sequences of such positions.     *)

bb_center_x(bb) == FracNorm(Frac(bb[1] + bb[3], 2))
bb_center_y(bb) == FracNorm(Frac(bb[2] + bb[4], 2))
bb_h(bb) == bb[4] - bb[2]
bb_w(bb) == bb[3] - bb[1]

(* int(image_width * 0.75): 0.75 is exact in binary floating point. *)
is_fullwidth(bb, image_width) == bb_w(bb) >= (image_width * 3) \div 4

RECURSIVE FracInsert(_, _)
FracInsert(x, s) ==
    IF s = <<>> THEN <<x>>
    ELSE IF FracLt(x, s[1]) THEN <<x>> \o s
    ELSE <<s[1]>> \o FracInsert(x, Tail(s))

RECURSIVE FracSort(_, _)
FracSort(todo, done) ==
    IF todo = <<>> THEN done ELSE FracSort(Tail(todo), FracInsert(Head(todo), done))

RECURSIVE FracSum(_)
FracSum(s) == IF s = <<>> THEN FracInt(0) ELSE FracNorm(FracAdd(Head(s), FracSum(Tail(s))))

FracMean(s) == FracNorm(FracMul(FracSum(s), Frac(1, Len(s))))

(* q(values, p) of lines 612-621, p given in percent; values are fractions. *)
(* Called only with a non-empty list (the None branch is not reachable).    *)
q(values, p) ==
    LET vals == FracSort(values, <<>>)
        n == Len(vals)
        f == ((n - 1) * p) \div 100          \* int(k), 0-based
        rem == ((n - 1) * p) % 100           \* (k - f) * 100
        c == Min2(f + 1, n - 1)
    IN IF f = c THEN vals[f + 1]
       ELSE FracNorm(FracAdd(vals[f + 1],
                FracMul(FracSub(vals[c + 1], vals[f + 1]), Frac(rem, 100))))

(* Lines 638-642: the bbox of every record (None where it has none), and *)
(* the positions of the records that have one, in input order.           *)
bboxes_of(records) == [i \in 1..Len(records) |-> record_bbox(records[i])]

items_of(bbs) == SelectIdx(Len(bbs), 1, {i \in 1..Len(bbs) : bbs[i] # None})

(* Line 648. *)
is_body_candidate(bb, image_width) == bb_h(bb) >= MIN_H /\ ~is_fullwidth(bb, image_width)

body_candidates(bbs, image_width) ==
    SelectIdx(Len(bbs), 1,
        {i \in 1..Len(bbs) : bbs[i] # None /\ is_body_candidate(bbs[i], image_width)})

(* Lines 650-654: the sort taken with fewer than 6 body candidates. *)
(* A slip in the mode arithmetic: the two axes' flags exchanged. *)
fallback_key_axes_exchanged(bb, reading_mode) ==
    LET reverse_y == (reading_mode % 2) = 1
        reverse_x == (reading_mode \div 2) = 1
    IN <<IF reverse_y THEN -bb[2] ELSE bb[2], IF reverse_x THEN -bb[1] ELSE bb[1]>>

fallback_key(bb, reading_mode) ==
    LET reverse_y == (reading_mode \div 2) = 1
        reverse_x == (reading_mode % 2) = 1
    IN <<IF reverse_y THEN -bb[2] ELSE bb[2], IF reverse_x THEN -bb[1] ELSE bb[1]>>

fallback_order(bbs, reading_mode) ==
    LET items == items_of(bbs)
    IN sorted([k \in 1..Len(items) |-> <<fallback_key(bbs[items[k]], reading_mode), items[k]>>])

(* Lines 661, 674, 682: sorted(items, key=(y0, x0)), whatever the mode. *)
plain_key(bb) == <<bb[2], bb[1]>>

single_column_order(bbs) ==
    LET items == items_of(bbs)
    IN sorted([k \in 1..Len(items) |-> <<plain_key(bbs[items[k]]), items[k]>>])

(* Lines 663-668: one pass of nearest-centre assignment and mean update. *)
nearer_first(x, c1, c2) == FracLe(FracAbs(FracSub(x, c1)), FracAbs(FracSub(x, c2)))

RECURSIVE SelectFrac(_, _, _, _)
SelectFrac(xs, c1, c2, first) ==
    IF xs = <<>> THEN <<>>
    ELSE (IF nearer_first(Head(xs), c1, c2) = first THEN <<Head(xs)>> ELSE <<>>)
         \o SelectFrac(Tail(xs), c1, c2, first)

lloyd_step(xs, cc) ==
    LET g1 == SelectFrac(xs, cc[1], cc[2], TRUE)
        g2 == SelectFrac(xs, cc[1], cc[2], FALSE)
    IN <<IF g1 # <<>> THEN FracMean(g1) ELSE cc[1],
         IF g2 # <<>> THEN FracMean(g2) ELSE cc[2]>>

(* Line 663: the pass repeated; each round's centres are computed before   *)
(* the next round starts.                                                   *)
RECURSIVE lloyd(_, _, _)
lloyd(xs, cc, rounds) ==
    IF rounds = 0 THEN cc
    ELSE LET next == lloyd_step(xs, cc)
         IN IF Len(next) = 2 THEN lloyd(xs, next, rounds - 1) ELSE next

(* Lines 656-671: the two centres, the lower one first; cand are the body *)
(* candidates.                                                            *)
cluster_centers(bbs, cand) ==
    LET xs == [k \in 1..Len(cand) |-> bb_center_x(bbs[cand[k]])]
        cc == lloyd(xs, <<q(xs, 25), q(xs, 75)>>, KMEANS_ITERATIONS)
    IN IF FracLt(cc[2], cc[1]) THEN <<cc[2], cc[1]>> ELSE cc

(* Line 673: abs(c2 - c1) < image_width * 0.18. *)
centers_too_close(cc, image_width) ==
    FracLt(FracAbs(FracSub(cc[2], cc[1])), Frac(image_width * 18, 100))

(* Lines 676-679. *)
body_top(bbs, cand) == q([k \in 1..Len(cand) |-> FracInt(bbs[cand[k]][2])], 8)

body_bot(bbs, cand) == q([k \in 1..Len(cand) |-> FracInt(bbs[cand[k]][4])], 92)

(* The height of the line not looked at: a thin fragment goes by position. *)
band_of_by_position(bb, top, bot) ==
    IF FracLt(FracInt(bb[4]), FracSub(top, FracInt(MARGIN_Y))) THEN "header"
    ELSE IF FracLt(FracAdd(bot, FracInt(MARGIN_Y)), FracInt(bb[2])) THEN "footer"
    ELSE "midband"

(* Lines 687-696: "header", "footer" or "midband". *)
band_of(bb, top, bot) ==
    IF bb_h(bb) < MIN_H THEN "midband"
    ELSE IF FracLt(FracInt(bb[4]), FracSub(top, FracInt(MARGIN_Y))) THEN "header"
    ELSE IF FracLt(FracAdd(bot, FracInt(MARGIN_Y)), FracInt(bb[2])) THEN "footer"
    ELSE "midband"

(* A slip in the comparison: the farther centre wins. *)
column_of_farther(bb, cc, image_width) ==
    IF is_fullwidth(bb, image_width) THEN "left"
    ELSE IF nearer_first(bb_center_x(bb), cc[2], cc[1]) THEN "left"
    ELSE "right"

(* Lines 710-719: "left" or "right" for a midband line. *)
column_of(bb, cc, image_width) ==
    IF is_fullwidth(bb, image_width) THEN "left"
    ELSE IF nearer_first(bb_center_x(bb), cc[1], cc[2]) THEN "left"
    ELSE "right"

(* The bucket a line with bbox bb is put in: header, footer, left, right. *)
bucket_of(bb, cc, top, bot, image_width) ==
    LET band == band_of(bb, top, bot)
    IN IF band = "midband" THEN column_of(bb, cc, image_width) ELSE band

(* Lines 698-705; the key is doubled (y0 + y1 for center_y), which keeps    *)
(* the order of the keys.                                                   *)
sort_key(bb, reading_mode) ==
    LET rev_y == reading_mode = BT_LR \/ reading_mode = BT_RL
        rev_x == reading_mode = TB_RL \/ reading_mode = BT_RL
        ky == bb[2] + bb[4]
        kx == 2 * bb[1]
    IN <<IF rev_y THEN -ky ELSE ky, IF rev_x THEN -kx ELSE kx>>

(* Lines 707-708, 721-722: the lines of one bucket, sorted by sort_key;     *)
(* buckets[i] is the bucket of line i.                                      *)
bucket_sorted(bbs, buckets, reading_mode, bucket) ==
    LET mine == SelectIdx(Len(bbs), 1, {i \in 1..Len(bbs) : buckets[i] = bucket})
    IN sorted([k \in 1..Len(mine) |-> <<sort_key(bbs[mine[k]], reading_mode), mine[k]>>])

(* Lines 676-696, 710-719: the bucket of every line ("none" without bbox). *)
buckets_of(bbs, cand, cc, image_width) ==
    LET top == body_top(bbs, cand)
        bot == body_bot(bbs, cand)
    IN [i \in 1..Len(bbs) |->
          IF bbs[i] = None THEN "none" ELSE bucket_of(bbs[i], cc, top, bot, image_width)]

(* The bottom-to-top modes assembled with the header first, as top-to-bottom. *)
assemble_header_first(header_sorted, left_sorted, right_sorted, footer_sorted, reading_mode) ==
    IF reading_mode \in {TB_LR, BT_LR}
    THEN header_sorted \o left_sorted \o right_sorted \o footer_sorted
    ELSE header_sorted \o right_sorted \o left_sorted \o footer_sorted

(* Lines 724-737. *)
assemble(header_sorted, left_sorted, right_sorted, footer_sorted, reading_mode) ==
    CASE reading_mode = TB_LR -> header_sorted \o left_sorted \o right_sorted \o footer_sorted
      [] reading_mode = TB_RL -> header_sorted \o right_sorted \o left_sorted \o footer_sorted
      [] reading_mode = BT_LR -> footer_sorted \o left_sorted \o right_sorted \o header_sorted
      [] OTHER -> footer_sorted \o right_sorted \o left_sorted \o header_sorted

BandNames == <<"header", "left", "right", "footer">>

(* Lines 676-737. *)
two_column_order(bbs, cand, cc, image_width, reading_mode) ==
    LET buckets == buckets_of(bbs, cand, cc, image_width)
        band_sorted == [b \in 1..4 |-> bucket_sorted(bbs, buckets, reading_mode, BandNames[b])]
    IN assemble(band_sorted[1], band_sorted[2], band_sorted[3], band_sorted[4], reading_mode)

(* Lines 644-674: which return statement is taken. *)
sort_path(bbs, image_width) ==
    LET cand == body_candidates(bbs, image_width)
    IN IF items_of(bbs) = <<>> THEN "no_items"
       ELSE IF Len(cand) < 6 THEN "fallback"
       ELSE IF centers_too_close(cluster_centers(bbs, cand), image_width) THEN "single_column"
       ELSE "two_column"

(* The early return of line 644-645 left out. *)
sort_records_no_early_return(records, image_width, reading_mode) ==
    LET bbs == bboxes_of(records)
        cand == body_candidates(bbs, image_width)
        path == sort_path(bbs, image_width)
    IN CASE path \in {"no_items", "fallback"} -> fallback_order(bbs, reading_mode)
         [] path = "single_column" -> single_column_order(bbs)
         [] OTHER -> two_column_order(bbs, cand, cluster_centers(bbs, cand),
                                      image_width, reading_mode)

(* Lines 611-737.  The result lists positions of the input list. *)
sort_records_reading_order(records, image_width, reading_mode) ==
    LET bbs == bboxes_of(records)
        cand == body_candidates(bbs, image_width)
        path == sort_path(bbs, image_width)
    IN CASE path = "no_items" -> [i \in 1..Len(records) |-> i]
         [] path = "fallback" -> fallback_order(bbs, reading_mode)
         [] path = "single_column" -> single_column_order(bbs)
         [] OTHER -> two_column_order(bbs, cand, cluster_centers(bbs, cand),
                                      image_width, reading_mode)

----------------------------------------------------------------------------
(* WIDE-LINE PASS of OCRWorker._ocr_one (lines 1593-1629) *)

(* Lines 740-743. *)
clamp_bbox(bb, w, h) ==
    <<Max2(0, Min2(w - 1, bb[1])), Max2(0, Min2(h - 1, bb[2])),
      Max2(0, Min2(w, bb[3])), Max2(0, Min2(h, bb[4]))>>

IsSpace(ch) == ch = " "

RECURSIVE lstrip(_)
lstrip(t) == IF t # <<>> /\ IsSpace(Head(t)) THEN lstrip(Tail(t)) ELSE t

RECURSIVE rstrip(_)
rstrip(t) ==
    IF t # <<>> /\ IsSpace(t[Len(t)]) THEN rstrip(SubSeq(t, 1, Len(t) - 1)) ELSE t

strip(t) == lstrip(rstrip(t))

(* re.compile(r"\s{2,}").split(txt, maxsplit=1): the leftmost run of two or *)
(* more whitespace characters, taken whole, cuts the text in two.           *)
WideGapStarts(txt) ==
    {i \in 1..(Len(txt) - 1) : IsSpace(txt[i]) /\ IsSpace(txt[i + 1])}

FirstGapStart(txt) == CHOOSE i \in WideGapStarts(txt) : \A j \in WideGapStarts(txt) : i <= j

(* The text cut at its last wide gap instead of its first. *)
wide_line_split_last(txt) ==
    IF WideGapStarts(txt) = {} THEN <<txt>>
    ELSE LET i == CHOOSE i \in WideGapStarts(txt) : \A j \in WideGapStarts(txt) : i >= j
         IN <<rstrip(SubSeq(txt, 1, i - 1)), lstrip(SubSeq(txt, i, Len(txt)))>>

wide_line_split(txt) ==
    IF WideGapStarts(txt) = {} THEN <<txt>>
    ELSE LET i == FirstGapStart(txt)
         IN <<SubSeq(txt, 1, i - 1), lstrip(SubSeq(txt, i, Len(txt)))>>

(* int(page_w * 0.80), exact for every page width below 5000. *)
wide_limit(page_w) == (page_w * 4) \div 5

(* Lines 1612-1624: the two boxes made for a split line with bbox bb. *)
split_left_bb(bb, page_w, page_h) ==
    clamp_bbox(<<0, bb[2], page_w \div 2, bb[4]>>, page_w, page_h)

split_right_bb(bb, page_w, page_h) ==
    clamp_bbox(<<page_w \div 2, bb[2], page_w, bb[4]>>, page_w, page_h)

(* Lines 1599-1629 for one record: the <<text, bbox>> pairs it contributes. *)
views_of_record(r, page_w, page_h) ==
    IF r.prediction = NonePrediction THEN <<>>
    ELSE LET txt == r.prediction
             bb == record_bbox(r)
             parts == wide_line_split(txt)
         IN IF bb # None /\ bb_w(bb) > wide_limit(page_w) /\ Len(parts) = 2
            THEN << <<strip(parts[1]), split_left_bb(bb, page_w, page_h)>>,
                    <<strip(parts[2]), split_right_bb(bb, page_w, page_h)>> >>
            ELSE << <<txt, bb>> >>

RecordView(idx, text, bbox) == [idx |-> idx, text |-> text, bbox |-> bbox]

(* out_idx of lines 1596-1629: the views are numbered from 0 as appended. *)
number_views(pairs) ==
    [i \in 1..Len(pairs) |-> RecordView(i - 1, pairs[i][1], pairs[i][2])]

wide_line_pass(records, order, page_w, page_h) ==
    number_views(Flatten([k \in 1..Len(order) |->
                             views_of_record(records[order[k]], page_w, page_h)]))

----------------------------------------------------------------------------
(* TABLE EXPORT HELPERS.  A RecordView object is referred to by its        *)
(* position in the list passed in.                                         *)

(* int(c["x"] * 0.8 + x0 * 0.2) *)
anchor_update(anchor, x0) ==
    LET n == 4 * anchor + x0 IN IF n >= 0 THEN n \div 5 ELSE -((-n) \div 5)

(* The last of the columns within x_threshold taken instead of the first. *)
last_near_col(cols, x0) ==
    LET near == {c \in 1..Len(cols) : Abs(cols[c].x - x0) <= x_threshold}
    IN IF near = {} THEN 0 ELSE CHOOSE c \in near : \A d \in near : c >= d

(* Index of the first column whose anchor is within x_threshold, or 0. *)
first_near_col(cols, x0) ==
    LET near == {c \in 1..Len(cols) : Abs(cols[c].x - x0) <= x_threshold}
    IN IF near = {} THEN 0 ELSE CHOOSE c \in near : \A d \in near : c <= d

RECURSIVE cluster_loop(_, _, _)
cluster_loop(records, i, cols) ==
    IF i > Len(records) THEN cols
    ELSE IF records[i].bbox = None THEN cluster_loop(records, i + 1, cols)
    ELSE LET x0 == records[i].bbox[1]
             c == first_near_col(cols, x0)
         IN IF c = 0
            THEN cluster_loop(records, i + 1, Append(cols, [x |-> x0, items |-> <<i>>]))
            ELSE cluster_loop(records, i + 1,
                     [cols EXCEPT ![c] = [x |-> anchor_update(cols[c].x, x0),
                                          items |-> Append(cols[c].items, i)]])

(* Lines 756-772: the columns (lists of views), by ascending final anchor. *)
cluster_columns(records) ==
    LET cols == cluster_loop(records, 1, <<>>)
        by_x == sorted([c \in 1..Len(cols) |-> <<<<cols[c].x>>, cols[c]>>])
    IN [c \in 1..Len(by_x) |-> by_x[c].items]

(* Lines 775-785. *)
is_same_visual_row(a, b, page_width) ==
    IF a.bbox = None \/ b.bbox = None THEN FALSE
    ELSE IF Abs(a.bbox[2] - b.bbox[2]) > ROW_TOLERANCE THEN FALSE
    ELSE LET mid == page_width \div 2
         IN ~(\/ (a.bbox[3] < mid /\ b.bbox[1] > mid)
              \/ (b.bbox[3] < mid /\ a.bbox[1] > mid))

first_row_for(records, rows, i, page_width) ==
    LET ok == {k \in 1..Len(rows) :
                  is_same_visual_row(records[rows[k][1]], records[i], page_width)}
    IN IF ok = {} THEN 0 ELSE CHOOSE k \in ok : \A j \in ok : k <= j

RECURSIVE rows_loop(_, _, _, _)
rows_loop(records, todo, rows, page_width) ==
    IF todo = <<>> THEN rows
    ELSE LET i == Head(todo)
             k == first_row_for(records, rows, i, page_width)
         IN IF k = 0
            THEN rows_loop(records, Tail(todo), Append(rows, <<i>>), page_width)
            ELSE rows_loop(records, Tail(todo),
                           [rows EXCEPT ![k] = Append(rows[k], i)], page_width)

(* Lines 788-802. *)
group_rows_by_y(records, page_width) ==
    LET with_bb == SelectIdx(Len(records), 1,
                       {i \in 1..Len(records) : records[i].bbox # None})
        sorted_recs == sorted([k \in 1..Len(with_bb) |->
                          <<<<records[with_bb[k]].bbox[2], records[with_bb[k]].bbox[1]>>,
                            with_bb[k]>>])
        rows == rows_loop(records, sorted_recs, <<>>, page_width)
    IN [k \in 1..Len(rows) |->
          sorted([m \in 1..Len(rows[k]) |->
                    <<<<records[rows[k][m]].bbox[1]>>, rows[k][m]>>])]

(* Lines 808-811: int(sum(xs) / max(1, len(xs))) per column. *)
column_xs(records) ==
    LET cols == cluster_columns(records)
    IN [c \in 1..Len(cols) |->
          LET total == SeqSum([m \in 1..Len(cols[c]) |-> records[cols[c][m]].bbox[1]])
              n == Max2(1, Len(cols[c]))
          IN IF total >= 0 THEN total \div n ELSE -((-total) \div n)]

(* Lines 813-823, 1-based. *)
nearest_col(col_x, x) ==
    IF col_x = <<>> THEN 1
    ELSE CHOOSE i \in 1..Len(col_x) :
            /\ \A j \in 1..Len(col_x) : Abs(col_x[i] - x) <= Abs(col_x[j] - x)
            /\ \A j \in 1..(i - 1) : Abs(col_x[j] - x) > Abs(col_x[i] - x)

RECURSIVE fill_line(_, _, _, _)
fill_line(records, members, col_x, line) ==
    IF members = <<>> THEN line
    ELSE LET rv == records[Head(members)]
             c == nearest_col(col_x, rv.bbox[1])
         IN fill_line(records, Tail(members), col_x,
                [line EXCEPT ![c] = IF line[c] # <<>> THEN line[c] \o <<" ">> \o rv.text
                                    ELSE rv.text])

(* A cell for every member of the row where the row has more members than  *)
(* there are columns.                                                      *)
table_to_rows_cell_per_member(records, page_width) ==
    LET rows == group_rows_by_y(records, page_width)
        col_x == column_xs(records)
    IN [k \in 1..Len(rows) |->
          fill_line(records, rows[k], col_x,
                    [c \in 1..Max2(Len(rows[k]), Len(col_x)) |-> <<>>])]

(* Lines 805-837. *)
table_to_rows(records, page_width) ==
    LET rows == group_rows_by_y(records, page_width)
        col_x == column_xs(records)
    IN [k \in 1..Len(rows) |->
          fill_line(records, rows[k], col_x, [c \in 1..Max2(1, Len(col_x)) |-> <<>>])]

(* Line 806, when line 3225 calls table_to_rows; no rows otherwise. *)
render_rows(views, page_width) ==
    IF \E i \in 1..Len(views) : views[i].bbox # None
    THEN group_rows_by_y(views, page_width)
    ELSE <<>>

(* The one-column fallback of line 3225 left out. *)
render_grid_always_table(views, page_width) == table_to_rows(views, page_width)

(* Lines 3225-3227 of MainWindow._render_file. *)
render_grid(views, page_width) ==
    IF \E i \in 1..Len(views) : views[i].bbox # None
    THEN table_to_rows(views, page_width)
    ELSE [i \in 1..Len(views) |-> <<views[i].text>>]


----------------------------------------------------------------------------
(* PAGES: what the segmenter and recogniser can yield for an image.        *)

LineRec(bbox, boundary, polygon, baseline, prediction) ==
    [bbox |-> bbox, boundary |-> boundary, polygon |-> polygon,
     baseline |-> baseline, prediction |-> prediction]

(* A record whose only geometry is an explicit box given in whole pixels. *)
BoxLine(x0, y0, x1, y1, txt) ==
    LineRec(<<2 * x0, 2 * y0, 2 * x1, 2 * y1>>, NoGeom, NoGeom, NoGeom, txt)

BareLine(txt) == LineRec(None, NoGeom, NoGeom, NoGeom, txt)

PageSize(page) ==
    CASE page \in {"wide", "edited"} -> <<800, 600>>
      [] OTHER -> <<1000, 1000>>

(* "mixed": a left column line, a right column line at the same height, a  *)
(* line above them, and a line without any geometry.                       *)
MixedLines ==
    { BoxLine(100, 100, 300, 120, <<"a">>),
      BoxLine(600, 100, 800, 120, <<"b">>),
      BoxLine(100, 0, 300, 20, <<"c">>),
      BareLine(<<"n">>) }

(* "columns": six lines whose horizontal centres are 50, 60, 70, 900, 910, *)
(* 920, each at any of the heights ScenarioYs, yielded in one of the       *)
(* orders ScenarioOrders.                                                  *)
ScenarioYs == {0, 200, 400}
ScenarioOrders ==
    { <<50, 60, 70, 900, 910, 920>>,
      <<920, 910, 900, 70, 60, 50>>,
      <<900, 50, 910, 60, 920, 70>> }
ScenarioLine(cx, y) == BoxLine(cx - 20, y, cx + 20, y + 20, <<"x">>)

LineCentre(r) == (r.bbox[1] + r.bbox[3]) \div 4

ScenarioNext(recs) ==
    LET n == Len(recs)
        fits == {o \in ScenarioOrders : \A i \in 1..n : LineCentre(recs[i]) = o[i]}
    IN IF n >= 6 THEN {}
       ELSE {ScenarioLine(o[n + 1], y) : o \in fits, y \in ScenarioYs}

(* "narrow": six lines of one narrow column, at two left edges and two     *)
(* heights.                                                                *)
NarrowLines ==
    { BoxLine(100, 0, 300, 20, <<"d">>),
      BoxLine(120, 0, 320, 20, <<"e">>),
      BoxLine(100, 100, 300, 120, <<"f">>) }

(* "bands": six lines in two columns (centres 50, 60, 70 and 900, 910,     *)
(* 920), yielded as one of BandBases, followed by further lines: thin      *)
(* fragments at the top and the bottom, full-width lines at the top, at    *)
(* the header margin and in the body, a header, a footer and a line        *)
(* without geometry.                                                       *)
BandBases ==
    { << ScenarioLine(900, 200), ScenarioLine(50, 200), ScenarioLine(910, 240),
         ScenarioLine(60, 240), ScenarioLine(920, 280), ScenarioLine(70, 280) >>,
      << ScenarioLine(900, 200), ScenarioLine(50, 0), ScenarioLine(910, 200),
         ScenarioLine(60, 200), ScenarioLine(920, 400), ScenarioLine(70, 200) >> }
ExtraLines ==
    { BoxLine(40, 0, 80, 10, <<"x">>),
      BoxLine(880, 900, 920, 910, <<"x">>),
      BoxLine(0, 0, 1000, 30, <<"x">>),
      BoxLine(0, 160, 1000, 190, <<"x">>),
      BoxLine(100, 250, 900, 270, <<"x">>),
      BoxLine(40, 100, 80, 120, <<"x">>),
      BoxLine(880, 500, 920, 520, <<"x">>),
      BareLine(<<"x">>) }
BandsNext(recs) ==
    LET n == Len(recs)
    IN IF n >= 6 THEN ExtraLines
       ELSE {b[n + 1] : b \in {c \in BandBases : \A i \in 1..n : recs[i] = c[i]}}

(* "geometry": every mix of explicit box, boundary, polygon and baseline.  *)
(* Coordinates are in half pixels: 21 is 10.5.                             *)
GeomBoxes ==
    { None,
      <<21, 41, 121, 81>>,      \* (10.5, 20.5, 60.5, 40.5): int gives 10, 20, 60, 40
      <<20, 40, 21, 80>>,       \* (10, 20, 10.5, 40): degenerate once coerced
      <<120, 40, 20, 80>> }     \* x1 < x0
GeomPolygon == << <<200, 200>>, <<401, 200>>, <<401, 261>>, <<200, 261>> >>
GeomBoundaries ==
    { NoGeom,
      FlatGeom(GeomPolygon),
      ContourGeom(<< <<GeomPolygon[1], GeomPolygon[2]>>, <<GeomPolygon[3], GeomPolygon[4]>> >>),
      [kind |-> "other", pts |-> <<>>] }
GeomBaselines == { NoGeom, FlatGeom(<< <<600, 300>>, <<801, 311>> >>) }
(* Baselines of integer points: (300,150), (400,155) and a level one. *)
IntegerBaselines ==
    { FlatGeom(<< <<600, 300>>, <<800, 310>> >>),
      FlatGeom(<< <<600, 300>>, <<800, 300>> >>) }
GeometryLines ==
    {LineRec(b, g, NoGeom, l, <<"g">>) : b \in GeomBoxes, g \in GeomBoundaries, l \in GeomBaselines}
    \cup {LineRec(b, NoGeom, FlatGeom(GeomPolygon), l, <<"p">>) : b \in GeomBoxes, l \in GeomBaselines}
    \cup {LineRec(None, NoGeom, NoGeom, l, <<"b">>) : l \in IntegerBaselines}

(* "uncoercible": explicit boxes with a coordinate that is not a number,   *)
(* alone, with a boundary polygon and with a baseline, beside a sound box. *)
UncoercibleLines ==
    { LineRec(<<NotANumber, 41, 121, 81>>, NoGeom, NoGeom, NoGeom, <<"g">>),
      LineRec(<<20, 40, NotANumber, 80>>, NoGeom, NoGeom, NoGeom, <<"g">>),
      LineRec(<<NotANumber, 41, 121, 81>>, FlatGeom(GeomPolygon), NoGeom, NoGeom, <<"g">>),
      LineRec(<<21, NotANumber, 121, 81>>, NoGeom, NoGeom,
              FlatGeom(<< <<600, 300>>, <<801, 311>> >>), <<"g">>),
      LineRec(<<21, 41, 121, 81>>, NoGeom, NoGeom, NoGeom, <<"g">>) }

(* "fullwidth": six midband lines of two columns on a page 1000 or 1001    *)
(* pixels wide, then lines 750 and 800 wide, a line 749 wide, a thin line  *)
(* as far from one column as from the other, and lines of the right        *)
(* column.                                                                 *)
FullwidthWidths == {1000, 1001}
FullwidthLines ==
    { BoxLine(250, 230, 1000, 250, <<"w">>),
      BoxLine(200, 230, 1000, 250, <<"w">>),
      BoxLine(0, 230, 749, 250, <<"w">>),
      BoxLine(435, 230, 535, 240, <<"w">>),
      BoxLine(880, 230, 920, 240, <<"w">>),
      ScenarioLine(905, 260) }
FullwidthNext(recs) ==
    LET n == Len(recs)
        base == << ScenarioLine(900, 200), ScenarioLine(50, 200), ScenarioLine(910, 240),
                   ScenarioLine(60, 240), ScenarioLine(920, 280), ScenarioLine(70, 280) >>
    IN IF n >= 6 THEN FullwidthLines ELSE {base[n + 1]}

(* "candidates": pages 1000 to 1003 pixels wide, with lines at both sides  *)
(* of three quarters of the width and of the height of 14.                 *)
CandidateWidths == {1000, 1001, 1002, 1003}
CandidateLines ==
    {BoxLine(0, 100, w, 100 + h, <<"c">>) : w \in {749, 750, 751, 752}, h \in {13, 14}}

(* "edited": a page of at most two lines, one of them split by the         *)
(* wide-line pass and one skipped for want of a prediction, whose views    *)
(* are then edited.                                                        *)
EditedLines ==
    { BoxLine(100, 100, 300, 120, <<"a">>),
      BoxLine(60, 200, 740, 230, <<"A", "A", " ", " ", "B", "B">>),
      BoxLine(100, 0, 300, 20, NonePrediction) }

(* The files of the queue, in the order of the queue. *)
QueueOrder == <<"p1", "p2">>
QueuePaths == {QueueOrder[k] : k \in 1..Len(QueueOrder)}
(* The file whose records and views the page variables follow. *)
ViewedPath == QueueOrder[1]

(* What the user types or draws while editing. *)
EditTexts == {<<"e">>}
EditBoxes == {<<10, 10, 50, 30>>}

(* "wide": lines wider than 80% of an 800 px page, with and without a run  *)
(* of whitespace, one of them reaching over the page edges and one lying   *)
(* above the page.                                                         *)
WideLines ==
    { BoxLine(60, 100, 740, 130, <<"A", "A", " ", " ", "B", "B">>),
      BoxLine(-2, 580, 802, 610, <<"A", " ", " ", " ", "B", " ", " ", "C">>),
      BoxLine(60, 200, 740, 230, <<"A", " ", "B">>),
      BoxLine(60, 300, 400, 330, <<"A", " ", " ", "B">>),
      BareLine(<<"A", " ", " ", "B">>),
      BoxLine(60, 400, 740, 430, NonePrediction),
      BoxLine(60, -40, 740, -10, <<"A", "A", " ", " ", "B", "B">>),
      BoxLine(80, 500, 720, 530, <<"A", " ", " ", "B">>),       \* as wide as 80% of the page
      BoxLine(80, 540, 721, 570, <<" ", " ", "A", "B">>) }      \* one more, the gap first

NextLines(page, recs) ==
    CASE page = "mixed" -> MixedLines
      [] page = "columns" -> ScenarioNext(recs)
      [] page = "narrow" -> NarrowLines
      [] page = "bands" -> BandsNext(recs)
      [] page = "uncoercible" -> UncoercibleLines
      [] page = "candidates" -> CandidateLines
      [] page = "fullwidth" -> FullwidthNext(recs)
      [] page = "edited" -> EditedLines
      [] page = "geometry" -> GeometryLines
      [] page = "wide" -> WideLines
      [] OTHER -> {}

LineLimit(page) ==
    CASE page = "mixed" -> MaxLines
      [] page = "columns" -> 6
      [] page = "narrow" -> 6
      [] page = "bands" -> 6 + MaxExtraLines
      [] page = "uncoercible" -> 2
      [] page = "candidates" -> 2
      [] page = "fullwidth" -> 6 + MaxExtraLines
      [] page = "edited" -> 2
      [] page = "geometry" -> MaxGeomLines
      [] page = "wide" -> MaxWideLines
      [] OTHER -> 0

(* "export": the record views a finished OCR pass can leave (each with a   *)
(* bbox), and the text typed into the new-line dialog.                     *)
ExportViews ==
    { <<<<"s">>, <<300, 95, 700, 115>>>>,
      <<<<"a">>, <<0, 100, 200, 120>>>>,
      <<<<"b">>, <<600, 100, 800, 120>>>>,
      <<<<"t">>, <<100, 300, 200, 400>>>>,
      <<<<"u">>, <<100, 330, 200, 430>>>>,
      <<<<"v">>, <<0, 108, 200, 128>>>> }

ExportLists ==
    UNION {[1..n -> ExportViews] : n \in 0..MaxViews}

(* Lists of views none of which has a bbox. *)
UnboxedLists ==
    UNION {[1..n -> {<<t, None>> : t \in {<<"n">>, <<"m">>}}] : n \in 0..MaxViews}

(* Eight views of one row whose left edges make the anchor of the first    *)
(* column drift from 100 to 146, the anchor of the second column.          *)
DriftEdges == <<100, 146, 145, 154, 163, 172, 181, 150>>
DriftList == [k \in 1..8 |-> <<<<"d">>, <<DriftEdges[k], 500, DriftEdges[k] + 30, 520>>>>]

(* Three views of one row in two columns, the second view 40 or 45 to the  *)
(* right of the first and the third at 60.                                 *)
AnchorEdges == {<<0, 40, 60>>, <<0, 45, 60>>}
AnchorLists ==
    { << <<<<"p">>, <<e[1], 500, e[1] + 30, 520>>>>,
         <<<<"q">>, <<e[2], 500, e[2] + 30, 520>>>>,
         <<<<"r">>, <<e[3], 500, e[3] + 30, 520>>>> >> : e \in AnchorEdges }

NewLineTexts == {<<"n">>, <<"m">>}

----------------------------------------------------------------------------
(* STATE MACHINE *)

ocr_vars == <<im, reading_direction, kr_records, kr_sorted>>
undo_vars == <<undo_stack, redo_stack>>
render_vars == <<visual_rows, grid>>
queue_vars == <<queue_items, workers, signals, act_play>>
page_vars == <<im, reading_direction, kr_records, kr_sorted, record_views, visual_rows, grid,
               undo_stack, redo_stack, pc>>

(* An OCRWorker: its job's input_paths, the index i of run's loop (from 1), *)
(* where the thread is ("loop": at the head of run's loop; "rpred": in     *)
(* _ocr_one, file_started emitted; "finished": finished_batch or failed   *)
(* emitted) and whether an interruption is requested.                      *)
OCRWorker(input_paths) ==
    [job |-> input_paths, i |-> 1, at |-> "loop", interrupted |-> FALSE]

isRunning(w) == workers[w].at # "finished"
CurrentPath(w) == workers[w].job[workers[w].i]

(* The queue as the files were dropped into it: every task waiting, no     *)
(* worker yet, the start action enabled.                                   *)
QueueWaiting ==
    /\ queue_items = [path \in QueuePaths |-> STATUS_WAITING]
    /\ workers = <<>>
    /\ signals = <<>>
    /\ act_play = TRUE

(* The queue while the first file, the one the page variables follow, is   *)
(* recognised: start_ocr made a worker for the whole queue, file_started   *)
(* of the first file was handled.                                          *)
QueueRecognising ==
    /\ queue_items = [path \in QueuePaths |->
                         IF path = ViewedPath THEN STATUS_PROCESSING ELSE STATUS_WAITING]
    /\ workers = <<[OCRWorker(QueueOrder) EXCEPT !.at = "rpred"]>>
    /\ signals = <<>>
    /\ act_play = FALSE

(* The queue after a batch that recognised every file: the worker is gone. *)
QueueDone ==
    /\ queue_items = [path \in QueuePaths |-> STATUS_DONE]
    /\ workers = <<>>
    /\ signals = <<>>
    /\ act_play = TRUE

InitPage(page, modes) ==
    /\ im = [page |-> page, size |-> PageSize(page)]
    /\ reading_direction \in modes
    /\ kr_records = <<>>
    /\ kr_sorted = <<>>
    /\ record_views = <<>>
    /\ visual_rows = <<>>
    /\ grid = <<>>
    /\ undo_stack = <<>>
    /\ redo_stack = <<>>
    /\ pc = "rpred"
    /\ QueueRecognising

Init == InitPage("edited", {TB_LR})

InitMixed == InitPage("mixed", READING_MODES)

InitColumns == InitPage("columns", {TB_LR})

InitNarrow == InitPage("narrow", READING_MODES)

InitBands == InitPage("bands", READING_MODES)

InitUncoercible == InitPage("uncoercible", READING_MODES)

InitWidths(page, widths) ==
    /\ im \in {[page |-> page, size |-> <<w, 1000>>] : w \in widths}
    /\ reading_direction \in READING_MODES
    /\ kr_records = <<>>
    /\ kr_sorted = <<>>
    /\ record_views = <<>>
    /\ visual_rows = <<>>
    /\ grid = <<>>
    /\ undo_stack = <<>>
    /\ redo_stack = <<>>
    /\ pc = "rpred"
    /\ QueueRecognising

InitCandidates == InitWidths("candidates", CandidateWidths)

InitFullwidth == InitWidths("fullwidth", FullwidthWidths)

InitGeometry == InitPage("geometry", {TB_LR, BT_RL})

InitWide == InitPage("wide", READING_MODES)

(* "history": two lines without geometry, and the snapshots that n moves  *)
(* of one line (_move_line) leave on the undo stack, oldest first: the     *)
(* order read before an odd move, the swapped order before an even one.    *)
HistoryOrder == << <<<<"a">>, None>>, <<<<"b">>, None>> >>
HistorySwapped == << <<<<"b">>, None>>, <<<<"a">>, None>> >>
HistoryAfter(n) == IF n % 2 = 0 THEN HistoryOrder ELSE HistorySwapped
HistoryStack(n) == [k \in 1..n |-> HistoryAfter(k - 1)]

(* A finished task one edit short of the limit of its undo stack. *)
InitHistory ==
    /\ im = [page |-> "history", size |-> PageSize("history")]
    /\ reading_direction = TB_LR
    /\ kr_records = <<>>
    /\ kr_sorted = <<>>
    /\ record_views = number_views(HistoryAfter(UNDO_LIMIT - 1))
    /\ visual_rows = <<>>
    /\ grid = <<>>
    /\ undo_stack = HistoryStack(UNDO_LIMIT - 1)
    /\ redo_stack = <<>>
    /\ pc = "emitted"
    /\ QueueDone

(* A finished task (STATUS_DONE) with its record views. *)
InitExport ==
    /\ im = [page |-> "export", size |-> PageSize("export")]
    /\ reading_direction = TB_LR
    /\ kr_records = <<>>
    /\ kr_sorted = <<>>
    /\ record_views \in {number_views(l) : l \in ExportLists \cup UnboxedLists \cup AnchorLists \cup {DriftList}}
    /\ visual_rows = <<>>
    /\ grid = <<>>
    /\ undo_stack = <<>>
    /\ redo_stack = <<>>
    /\ pc = "emitted"
    /\ QueueDone

InitStability == InitNarrow \/ InitBands \/ InitExport

(* Lines 1580-1586: rpred yields one more record. *)
Rpred ==
    /\ pc = "rpred"
    /\ Len(kr_records) < LineLimit(im.page)
    /\ \E rec \in NextLines(im.page, kr_records) :
          kr_records' = Append(kr_records, rec)
    /\ UNCHANGED <<im, reading_direction, kr_sorted, record_views, render_vars, undo_vars, pc, queue_vars>>

(* Lines 1632 and 2667-2675 for the file the page variables follow: the    *)
(* worker that recognised it is back at the head of its loop, the task is  *)
(* done (its stacks, cleared here, are empty while it is recognised).      *)
FileDoneHandled ==
    /\ \E w \in 1..Len(workers) :
          /\ workers[w].at = "rpred"
          /\ CurrentPath(w) = ViewedPath
          /\ workers' = [workers EXCEPT ![w] = [@ EXCEPT !.i = @ + 1, !.at = "loop"]]
    /\ queue_items' = [queue_items EXCEPT ![ViewedPath] = STATUS_DONE]
    /\ UNCHANGED <<signals, act_play>>

(* The step of lines 1591-1632 had it sorted the list of records in place. *)
OcrOneEmitSortsInPlace ==
    /\ pc = "rpred"
    /\ kr_sorted' = sort_records_reading_order(kr_records, im.size[1], reading_direction)
    /\ kr_records' = [k \in 1..Len(kr_sorted') |-> kr_records[kr_sorted'[k]]]
    /\ record_views' = wide_line_pass(kr_records, kr_sorted', im.size[1], im.size[2])
    /\ pc' = "emitted"
    /\ FileDoneHandled
    /\ UNCHANGED <<im, reading_direction, render_vars, undo_vars>>

(* Lines 1591-1632: the records are sorted, the views built, file_done      *)
(* emitted with both and handled by the window.                             *)
OcrOneEmit ==
    /\ pc = "rpred"
    /\ kr_sorted' = sort_records_reading_order(kr_records, im.size[1], reading_direction)
    /\ record_views' = wide_line_pass(kr_records, kr_sorted', im.size[1], im.size[2])
    /\ pc' = "emitted"
    /\ FileDoneHandled
    /\ UNCHANGED <<im, reading_direction, kr_records, render_vars, undo_vars>>

(* The lists left as the handlers made them, idx not rewritten. *)
_sync_ui_without_renumbering(recs) == recs

(* Lines 2897-2898: rv.idx = i for every view. *)
_sync_ui_after_recs_change(recs) ==
    [i \in 1..Len(recs) |-> [recs[i] EXCEPT !.idx = i - 1]]

(* Lines 1867-1868. *)
_snapshot_recs(recs) == [i \in 1..Len(recs) |-> <<recs[i].text, recs[i].bbox>>]

(* The push without the limit of lines 1884-1885. *)
pushed_without_limit(stack, recs) == Append(stack, _snapshot_recs(recs))

(* The snapshot restored with the texts only. *)
_restore_recs_without_boxes(snapshot) ==
    [i \in 1..Len(snapshot) |-> RecordView(i - 1, snapshot[i][1], None)]

(* Lines 1871-1875. *)
_restore_recs(snapshot) ==
    [i \in 1..Len(snapshot) |-> RecordView(i - 1, snapshot[i][1], snapshot[i][2])]

(* Lines 1882-1885: the undo stack after a push (the row selected in the   *)
(* list, kept in the snapshot for the cursor only, is left out).           *)
pushed(stack, recs) ==
    LET longer == Append(stack, _snapshot_recs(recs))
    IN IF Len(longer) > UNDO_LIMIT THEN Tail(longer) ELSE longer

(* Lines 1877-1886, then the edited list recs is stored and renumbered. *)
Edited(recs) ==
    /\ undo_stack' = pushed(undo_stack, record_views)
    /\ redo_stack' = <<>>
    /\ record_views' = _sync_ui_after_recs_change(recs)
    /\ UNCHANGED <<ocr_vars, render_vars, pc, queue_vars>>

(* The task is done and has results; the number of edits is bounded,     *)
(* except on the page whose history starts next to the limit of the stack *)
(* (there the stack itself bounds the states).                            *)
CanEdit == pc = "emitted" /\ (im.page = "history" \/ Len(undo_stack) < MaxEdits)

(* list.pop(row) and list.insert(row, rv), rows counted from 0. *)
Popped(recs, row) == SubSeq(recs, 1, row) \o SubSeq(recs, row + 2, Len(recs))
Inserted(recs, row, rv) == SubSeq(recs, 1, row) \o <<rv>> \o SubSeq(recs, row + 1, Len(recs))

(* Lines 2910-2918. *)
_move_line ==
    /\ CanEdit
    /\ \E row \in 0..(Len(record_views) - 1), direction \in {-1, 1} :
          LET new_row == row + direction
          IN /\ new_row \in 0..(Len(record_views) - 1)
             /\ Edited([record_views EXCEPT ![row + 1] = record_views[new_row + 1],
                                            ![new_row + 1] = record_views[row + 1]])

(* Lines 2940-2952; with from_row = to_row the views are only renumbered. *)
_move_line_to ==
    /\ CanEdit
    /\ \E from_row \in 0..(Len(record_views) - 1), target \in -1..Len(record_views) :
          LET to_row == Max2(0, Min2(Len(record_views) - 1, target))
          IN IF from_row = to_row
             THEN /\ record_views' = _sync_ui_after_recs_change(record_views)
                  /\ UNCHANGED <<ocr_vars, render_vars, undo_vars, pc, queue_vars>>
             ELSE Edited(Inserted(Popped(record_views, from_row), to_row,
                                  record_views[from_row + 1]))

(* Lines 2822-2839: order is the list of old rows after a drag and drop,   *)
(* a permutation of the rows (LinesListWidget.dropEvent, lines 1031-1040). *)
on_lines_reordered ==
    /\ CanEdit
    /\ record_views # <<>>
    /\ \E order \in [1..Len(record_views) -> 0..(Len(record_views) - 1)] :
          /\ \A i, j \in 1..Len(record_views) : order[i] = order[j] => i = j
          /\ Edited([i \in 1..Len(record_views) |-> record_views[order[i] + 1]])

(* Lines 2954-2962. *)
_delete_line ==
    /\ CanEdit
    /\ \E row \in 0..(Len(record_views) - 1) : Edited(Popped(record_views, row))

(* Lines 2964-2976: a line without bbox is inserted at insert_row. *)
_add_line ==
    /\ CanEdit
    /\ Len(record_views) < MaxViews
    /\ \E insert_row \in 0..Len(record_views), new_text \in NewLineTexts :
          Edited(Inserted(record_views, insert_row, RecordView(insert_row, new_text, None)))

(* Lines 3008-3024: the box typed into the dialog replaces the view's. *)
on_canvas_edit_box ==
    /\ CanEdit
    /\ \E idx \in 0..(Len(record_views) - 1), new_bbox \in EditBoxes :
          Edited([record_views EXCEPT ![idx + 1].bbox = new_bbox])

(* Lines 3026-3036. *)
on_canvas_delete_box ==
    /\ CanEdit
    /\ \E idx \in 0..(Len(record_views) - 1) :
          Edited([record_views EXCEPT ![idx + 1].bbox = None])

(* Lines 3041-3094: a box drawn inside the image, for a new line appended  *)
(* with the text typed, which may be empty (case A), or for the row the    *)
(* drawing was started for (case B).                                       *)
on_box_drawn ==
    /\ CanEdit
    /\ \E box \in EditBoxes :
          \/ /\ Len(record_views) < MaxViews
             /\ \E new_txt \in EditTexts \cup {<<>>} :
                   Edited(Append(record_views, RecordView(Len(record_views), new_txt, box)))
          \/ \E row \in 0..(Len(record_views) - 1) :
                Edited([record_views EXCEPT ![row + 1].bbox = box])

(* Lines 3096-3126: an overlay rectangle dragged to another place. *)
on_overlay_rect_changed ==
    /\ CanEdit
    /\ \E idx \in 0..(Len(record_views) - 1), new \in EditBoxes :
          /\ record_views[idx + 1].bbox # new
          /\ Edited([record_views EXCEPT ![idx + 1].bbox = new])

(* Lines 2801-2810: the box of an edited line is made as wide as the new   *)
(* text at the old width per character (exact for texts of 1, 2 or 4       *)
(* characters).                                                            *)
rescaled_bbox(bbox, old_text, new_text, img_w) ==
    LET old_len == Max2(1, Len(old_text))
        new_len == Max2(1, Len(new_text))
        w == Max2(10, bbox[3] - bbox[1])
        new_w == Max2(10, (w * new_len) \div old_len)
    IN <<bbox[1], bbox[2], Min2(img_w, bbox[1] + new_w), bbox[4]>>

(* Lines 2755-2812: the item text "<number>  <text>" moves the line to row *)
(* number - 1 and gives it the text; without a number the row is kept.     *)
on_line_item_edited ==
    /\ CanEdit
    /\ \E row \in 0..(Len(record_views) - 1), number \in 0..(Len(record_views) + 1),
          typed \in EditTexts \cup {record_views[k].text : k \in 1..Len(record_views)} :
          LET target_idx == Max2(0, Min2(Len(record_views) - 1, number - 1))
              old == record_views[row + 1]
          IN IF target_idx = row /\ typed = old.text
             THEN UNCHANGED vars
             ELSE IF target_idx # row
             THEN Edited(Inserted(Popped(record_views, row), target_idx,
                                  [old EXCEPT !.text = typed]))
             ELSE Edited([record_views EXCEPT ![row + 1] =
                     [old EXCEPT !.text = typed,
                                 !.bbox = IF old.bbox # None
                                          THEN rescaled_bbox(old.bbox, old.text, typed, im.size[1])
                                          ELSE None]])

(* Lines 1888-1900 and 1902-1916. *)
undo ==
    /\ pc = "emitted"
    /\ undo_stack # <<>>
    /\ redo_stack' = Append(redo_stack, _snapshot_recs(record_views))
    /\ undo_stack' = SubSeq(undo_stack, 1, Len(undo_stack) - 1)
    /\ record_views' = _sync_ui_after_recs_change(_restore_recs(undo_stack[Len(undo_stack)]))
    /\ UNCHANGED <<ocr_vars, render_vars, pc, queue_vars>>

(* Lines 1888-1900 and 1918-1932. *)
redo ==
    /\ pc = "emitted"
    /\ redo_stack # <<>>
    /\ undo_stack' = Append(undo_stack, _snapshot_recs(record_views))
    /\ redo_stack' = SubSeq(redo_stack, 1, Len(redo_stack) - 1)
    /\ record_views' = _sync_ui_after_recs_change(_restore_recs(redo_stack[Len(redo_stack)]))
    /\ UNCHANGED <<ocr_vars, render_vars, pc, queue_vars>>

(* Lines 3214-3227, a table format. *)
RenderFile ==
    /\ pc = "emitted"
    /\ visual_rows' = render_rows(record_views, im.size[1])
    /\ grid' = render_grid(record_views, im.size[1])
    /\ pc' = "rendered"
    /\ UNCHANGED <<ocr_vars, record_views, undo_vars, queue_vars>>

----------------------------------------------------------------------------
(* THE QUEUE.  The worker threads and the window's handlers of their       *)
(* signals; of a task only the status is followed here, and for the file   *)
(* the page variables follow, what the handlers clear.  A signal is        *)
(* <<kind, path>>; the window handles them in the order they were emitted  *)
(* (queued connections to the thread of the window); the number of        *)
(* signals waiting for the window is bounded.                              *)

Emit(kind, path) ==
    /\ Len(signals) < MaxSignals
    /\ signals' = Append(signals, <<kind, path>>)

Handles(kind) == signals # <<>> /\ Head(signals)[1] = kind

(* OCRWorker.run, lines 1640-1644 and 1656-1657: the models cannot be      *)
(* loaded, failed is emitted and the thread ends.                          *)
WorkerFailed(w) ==
    /\ workers[w].at = "loop"
    /\ workers[w].i = 1
    /\ workers' = [workers EXCEPT ![w] = [@ EXCEPT !.at = "finished"]]
    /\ Emit("failed", "")
    /\ UNCHANGED <<queue_items, act_play, page_vars>>

(* OCRWorker.run, lines 1647-1652, and _ocr_one, line 1570: the next path  *)
(* of the job, no interruption requested: file_started is emitted.         *)
WorkerStartFile(w) ==
    /\ workers[w].at = "loop"
    /\ workers[w].i <= Len(workers[w].job)
    /\ ~workers[w].interrupted
    /\ workers' = [workers EXCEPT ![w] = [@ EXCEPT !.at = "rpred"]]
    /\ Emit("file_started", CurrentPath(w))
    /\ UNCHANGED <<queue_items, act_play, page_vars>>

(* _ocr_one, lines 1571-1632, no interruption requested after the last     *)
(* line was recognised: file_done is emitted.                              *)
WorkerFileDone(w) ==
    /\ workers[w].at = "rpred"
    /\ ~workers[w].interrupted
    /\ workers' = [workers EXCEPT ![w] = [@ EXCEPT !.i = @ + 1, !.at = "loop"]]
    /\ Emit("file_done", CurrentPath(w))
    /\ UNCHANGED <<queue_items, act_play, page_vars>>

(* _ocr_one, lines 1585-1589: an interruption was requested, _ocr_one      *)
(* returns and nothing is emitted.                                         *)
WorkerInterrupted(w) ==
    /\ workers[w].at = "rpred"
    /\ workers[w].interrupted
    /\ workers' = [workers EXCEPT ![w] = [@ EXCEPT !.i = @ + 1, !.at = "loop"]]
    /\ UNCHANGED <<queue_items, signals, act_play, page_vars>>

(* _ocr_one, lines 1634-1635: the image cannot be read or recognised.      *)
WorkerFileError(w) ==
    /\ workers[w].at = "rpred"
    /\ workers' = [workers EXCEPT ![w] = [@ EXCEPT !.i = @ + 1, !.at = "loop"]]
    /\ Emit("file_error", CurrentPath(w))
    /\ UNCHANGED <<queue_items, act_play, page_vars>>

(* OCRWorker.run, lines 1647-1655: the job is through or an interruption   *)
(* was requested: finished_batch is emitted and the thread ends.           *)
WorkerFinish(w) ==
    /\ workers[w].at = "loop"
    /\ workers[w].i > Len(workers[w].job) \/ workers[w].interrupted
    /\ workers' = [workers EXCEPT ![w] = [@ EXCEPT !.at = "finished"]]
    /\ Emit("finished_batch", "")
    /\ UNCHANGED <<queue_items, act_play, page_vars>>

(* Lines 2661-2665. *)
on_file_started ==
    /\ Handles("file_started")
    /\ queue_items' = [queue_items EXCEPT ![Head(signals)[2]] = STATUS_PROCESSING]
    /\ signals' = Tail(signals)
    /\ UNCHANGED <<workers, act_play, page_vars>>

(* Lines 2667-2675: the results are stored with the task (not followed     *)
(* here), its stacks cleared.                                              *)
on_file_done ==
    /\ Handles("file_done")
    /\ queue_items' = [queue_items EXCEPT ![Head(signals)[2]] = STATUS_DONE]
    /\ signals' = Tail(signals)
    /\ IF Head(signals)[2] = ViewedPath
       THEN undo_stack' = <<>> /\ redo_stack' = <<>>
       ELSE UNCHANGED undo_vars
    /\ UNCHANGED <<workers, act_play, ocr_vars, record_views, render_vars, pc>>

(* Lines 2682-2686. *)
on_file_error ==
    /\ Handles("file_error")
    /\ queue_items' = [queue_items EXCEPT ![Head(signals)[2]] = STATUS_ERROR]
    /\ signals' = Tail(signals)
    /\ UNCHANGED <<workers, act_play, page_vars>>

(* Lines 2688-2691. *)
on_batch_finished ==
    /\ Handles("finished_batch")
    /\ act_play' = TRUE
    /\ signals' = Tail(signals)
    /\ UNCHANGED <<queue_items, workers, page_vars>>

(* Lines 2693-2696. *)
on_failed ==
    /\ Handles("failed")
    /\ act_play' = TRUE
    /\ signals' = Tail(signals)
    /\ UNCHANGED <<queue_items, workers, page_vars>>

(* Lines 2592 and 2608: the paths of the waiting tasks, in queue order. *)
WaitingPaths(items) ==
    SelectSeq(QueueOrder, LAMBDA path : items[path] = STATUS_WAITING)

(* The body of start_ocr, lines 2592-2628, with the statuses items (the    *)
(* models are there): a new worker for the waiting tasks is started and    *)
(* becomes self.worker, whether or not an earlier worker is running.       *)
StartWorker(items) ==
    IF WaitingPaths(items) = <<>>
    THEN UNCHANGED <<workers, act_play>>
    ELSE /\ workers' = Append(workers, OCRWorker(WaitingPaths(items)))
         /\ act_play' = FALSE

(* Lines 2583-2628, triggered by act_play (lines 1809-1810), which is      *)
(* disabled from here to on_batch_finished or on_failed.                   *)
start_ocr ==
    /\ act_play
    /\ Len(workers) < MaxWorkers
    /\ WaitingPaths(queue_items) # <<>>
    /\ StartWorker(queue_items)
    /\ UNCHANGED <<queue_items, signals, page_vars>>

(* Lines 2636-2654, triggered by act_re_ocr (lines 1816-1818), which is    *)
(* never disabled: the task of the selected row waits again, its results   *)
(* and stacks are dropped, and start_ocr is called.                        *)
reprocess_selected(path) ==
    /\ Len(workers) < MaxWorkers
    /\ queue_items' = [queue_items EXCEPT ![path] = STATUS_WAITING]
    /\ StartWorker(queue_items')
    /\ IF path = ViewedPath
       THEN /\ kr_records' = <<>>
            /\ kr_sorted' = <<>>
            /\ record_views' = <<>>
            /\ undo_stack' = <<>>
            /\ redo_stack' = <<>>
            /\ pc' = "rpred"
            /\ UNCHANGED <<im, reading_direction, render_vars>>
       ELSE UNCHANGED page_vars
    /\ UNCHANGED signals

(* Lines 2656-2659, triggered by act_stop (lines 1812-1814), which is      *)
(* enabled exactly while act_play is disabled: self.worker is the worker   *)
(* made last.                                                              *)
stop_ocr ==
    /\ ~act_play
    /\ workers # <<>>
    /\ isRunning(Len(workers))
    /\ ~workers[Len(workers)].interrupted
    /\ workers' = [workers EXCEPT ![Len(workers)] = [@ EXCEPT !.interrupted = TRUE]]
    /\ UNCHANGED <<queue_items, signals, act_play, page_vars>>

(* The files are in the queue, nothing is recognised yet. *)
InitWaiting ==
    /\ im = [page |-> "edited", size |-> PageSize("edited")]
    /\ reading_direction = TB_LR
    /\ kr_records = <<>>
    /\ kr_sorted = <<>>
    /\ record_views = <<>>
    /\ visual_rows = <<>>
    /\ grid = <<>>
    /\ undo_stack = <<>>
    /\ redo_stack = <<>>
    /\ pc = "rpred"
    /\ QueueWaiting

WorkerStep(w) ==
    \/ WorkerFailed(w)
    \/ WorkerStartFile(w)
    \/ WorkerFileDone(w)
    \/ WorkerInterrupted(w)
    \/ WorkerFileError(w)
    \/ WorkerFinish(w)

WindowStep ==
    \/ on_file_started
    \/ on_file_done
    \/ on_file_error
    \/ on_batch_finished
    \/ on_failed

NextQueue ==
    \/ \E w \in 1..Len(workers) : WorkerFailed(w)
    \/ \E w \in 1..Len(workers) : WorkerStartFile(w)
    \/ \E w \in 1..Len(workers) : WorkerFileDone(w)
    \/ \E w \in 1..Len(workers) : WorkerInterrupted(w)
    \/ \E w \in 1..Len(workers) : WorkerFileError(w)
    \/ \E w \in 1..Len(workers) : WorkerFinish(w)
    \/ on_file_started
    \/ on_file_done
    \/ on_file_error
    \/ on_batch_finished
    \/ on_failed
    \/ start_ocr
    \/ \E path \in QueuePaths : reprocess_selected(path)
    \/ stop_ocr

NextHistory == _move_line \/ undo \/ redo \/ reprocess_selected(ViewedPath)

NextOcr == Rpred \/ OcrOneEmit

NextExport == _add_line \/ RenderFile

NextStability == Rpred \/ OcrOneEmit \/ RenderFile

NextPage ==
    \/ Rpred
    \/ OcrOneEmit
    \/ _move_line
    \/ _move_line_to
    \/ on_lines_reordered
    \/ _delete_line
    \/ _add_line
    \/ on_canvas_edit_box
    \/ on_canvas_delete_box
    \/ on_box_drawn
    \/ on_overlay_rect_changed
    \/ on_line_item_edited
    \/ undo
    \/ redo
    \/ RenderFile

Next == NextPage \/ NextQueue

Spec == Init /\ [][Next]_vars

SpecPage == Init /\ [][NextPage]_vars

SpecHistory == InitHistory /\ [][NextHistory]_vars

SpecQueue == InitWaiting /\ [][NextQueue]_vars

(* The threads are scheduled and the window handles the signals in its    *)
(* queue; nobody has to click.                                            *)
FairQueue ==
    /\ \A w \in 1..MaxWorkers : WF_vars(w <= Len(workers) /\ WorkerStep(w))
    /\ WF_vars(WindowStep)

SpecQueueFair == SpecQueue /\ FairQueue

SpecMixed == InitMixed /\ [][NextOcr]_vars

SpecColumns == InitColumns /\ [][NextOcr]_vars

SpecNarrow == InitNarrow /\ [][NextOcr]_vars

SpecBands == InitBands /\ [][NextOcr]_vars

SpecUncoercible == InitUncoercible /\ [][NextOcr]_vars

SpecStability == InitStability /\ [][NextStability]_vars

SpecCandidates == InitCandidates /\ [][NextOcr]_vars

SpecFullwidth == InitFullwidth /\ [][NextOcr]_vars

SpecGeometry == InitGeometry /\ [][NextOcr]_vars

SpecWide == InitWide /\ [][NextOcr]_vars

SpecExport == InitExport /\ [][NextExport]_vars

----------------------------------------------------------------------------
(* PROPERTIES OF THE READING ORDER *)

Emitted == pc = "emitted"
InputBoxes == bboxes_of(kr_records)
HasBox == {i \in 1..Len(kr_records) : InputBoxes[i] # None}
SortedSet == {kr_sorted[k] : k \in 1..Len(kr_sorted)}
NoDuplicates == Cardinality(SortedSet) = Len(kr_sorted)
PathTaken == sort_path(InputBoxes, im.size[1])

BottomToTop == reading_direction \in {BT_LR, BT_RL}
RightToLeft == reading_direction \in {TB_RL, BT_RL}

(* The (y0, x0) key with y0 negated bottom-to-top and x0 negated           *)
(* right-to-left, and the output being in non-decreasing order of it.      *)
ModeKeyY(i) == IF BottomToTop THEN -InputBoxes[i][2] ELSE InputBoxes[i][2]
ModeKeyX(i) == IF RightToLeft THEN -InputBoxes[i][1] ELSE InputBoxes[i][1]
ModeKeyLeq(i, j) ==
    \/ ModeKeyY(i) < ModeKeyY(j)
    \/ ModeKeyY(i) = ModeKeyY(j) /\ ModeKeyX(i) <= ModeKeyX(j)
InModeOrder ==
    \A k \in 1..(Len(kr_sorted) - 1) : ModeKeyLeq(kr_sorted[k], kr_sorted[k + 1])

(* C1: for every input, width and mode the output of                       *)
(* sort_records_reading_order is a permutation of the input: every input   *)
(* line appears in it exactly once.                                        *)
C1_OutputIsPermutation ==
    Emitted => /\ Len(kr_sorted) = Len(kr_records)
               /\ SortedSet = 1..Len(kr_records)

(* C3 as stated: with fewer than 6 body candidates the output is all lines *)
(* that have a bbox, sorted by (y0, x0) with the signs of the mode.        *)
C3_FallbackAsStated ==
    (Emitted /\ Len(body_candidates(InputBoxes, im.size[1])) < 6)
        => /\ SortedSet = HasBox
           /\ NoDuplicates
           /\ InModeOrder

(* C3 amended: when at least one line has a bbox and fewer than 6 lines    *)
(* are body candidates, the output is exactly the lines that have a bbox,  *)
(* each once, in non-decreasing order of (y0, x0), y0 negated exactly in   *)
(* the bottom-to-top modes and x0 negated exactly in the right-to-left     *)
(* modes.                                                                  *)
C3_FallbackSorted ==
    (Emitted /\ HasBox # {} /\ Len(body_candidates(InputBoxes, im.size[1])) < 6)
        => /\ SortedSet = HasBox
           /\ NoDuplicates
           /\ InModeOrder

(* C3 witness: three boxed lines, read bottom-to-top and right-to-left,    *)
(* come out in the reverse of their input order.                           *)
C3_Witness ==
    /\ Emitted
    /\ reading_direction = BT_RL
    /\ PathTaken = "fallback"
    /\ Len(kr_records) = 3
    /\ kr_sorted = <<3, 2, 1>>
    /\ InputBoxes[1][2] < InputBoxes[2][2]
    /\ InputBoxes[2][1] < InputBoxes[3][1]

(* C4: with at least 6 body candidates and cluster centres closer than 18% *)
(* of the width, the output is in (y0, x0) order with the signs of the     *)
(* mode, as in the fallback of C3.                                         *)
C4_SingleColumnUsesModeOrder ==
    (Emitted /\ PathTaken = "single_column") => InModeOrder

(* C10: when no input line has a bbox the output is the input, in input    *)
(* order, in every mode.                                                   *)
C10_NoBoxKeepsInputOrder ==
    (Emitted /\ HasBox = {}) => kr_sorted = [i \in 1..Len(kr_records) |-> i]

(* C10 witness: two different lines, neither with usable geometry, in a   *)
(* mode that reverses both axes, come out as they went in.                 *)
C10_Witness ==
    /\ Emitted
    /\ HasBox = {}
    /\ Len(kr_records) = 2
    /\ kr_records[1].bbox # None
    /\ kr_records[2].bbox = None
    /\ kr_records[2].boundary.kind = "other"
    /\ reading_direction = BT_RL
    /\ kr_sorted = <<1, 2>>

----------------------------------------------------------------------------
(* THE TWO-COLUMN SCENARIO (specification SpecColumns) *)

ScenarioComplete == Emitted /\ im.page = "columns" /\ Len(kr_records) = 6
LeftCluster == {i \in 1..Len(kr_records) : LineCentre(kr_records[i]) \in {50, 60, 70}}
RightCluster == {i \in 1..Len(kr_records) : LineCentre(kr_records[i]) \in {900, 910, 920}}
Pos(i) == CHOOSE k \in 1..Len(kr_sorted) : kr_sorted[k] = i
ScenarioCandidates == body_candidates(InputBoxes, im.size[1])
BandOfLine(i) ==
    band_of(InputBoxes[i], body_top(InputBoxes, ScenarioCandidates),
            body_bot(InputBoxes, ScenarioCandidates))
InBand(name) == {i \in 1..Len(kr_records) : BandOfLine(i) = name}

(* C5 as stated: in the scenario, whatever the vertical positions, two     *)
(* columns are recognised and the three left-cluster lines all come before *)
(* the three right-cluster lines.                                          *)
C5_LeftBeforeRightAsStated ==
    ScenarioComplete =>
        /\ PathTaken = "two_column"
        /\ \A i \in LeftCluster, j \in RightCluster : Pos(i) < Pos(j)

(* C5 amended: in the scenario, whatever the vertical positions, two       *)
(* columns are recognised and the output is a permutation of the six       *)
(* lines in which the header lines come first, the footer lines last, and  *)
(* between them every left-cluster midband line precedes every             *)
(* right-cluster midband line; so all left-cluster lines precede all       *)
(* right-cluster lines whenever no right-cluster line is a header and no   *)
(* left-cluster line is a footer.                                          *)
C5_LeftBeforeRightInMidband ==
    ScenarioComplete =>
        /\ PathTaken = "two_column"
        /\ SortedSet = 1..6 /\ NoDuplicates
        /\ \A i \in InBand("header"), j \in (1..6) \ InBand("header") : Pos(i) < Pos(j)
        /\ \A i \in InBand("footer"), j \in (1..6) \ InBand("footer") : Pos(j) < Pos(i)
        /\ \A i \in LeftCluster \cap InBand("midband"),
              j \in RightCluster \cap InBand("midband") : Pos(i) < Pos(j)
        /\ (RightCluster \cap InBand("header") = {} /\ LeftCluster \cap InBand("footer") = {})
              => \A i \in LeftCluster, j \in RightCluster : Pos(i) < Pos(j)

(* C5 witness: the six lines arrive right column first, all in the         *)
(* midband, and the left-cluster lines are output first.                   *)
C5_Witness ==
    /\ ScenarioComplete
    /\ LeftCluster = {4, 5, 6}
    /\ InBand("midband") = 1..6
    /\ \A i \in 1..3 : kr_sorted[i] \in LeftCluster
    /\ \E i, j \in 1..6 : InputBoxes[i][2] # InputBoxes[j][2]

----------------------------------------------------------------------------
(* GEOMETRY PRIORITY (specification SpecGeometry) *)

Trunc(h) == IF h >= 0 THEN h \div 2 ELSE -((-h) \div 2)
SetMin(S) == CHOOSE x \in S : \A y \in S : x <= y
SetMax(S) == CHOOSE x \in S : \A y \in S : x >= y

HasExplicitBox(r) == r.bbox # None
CoercedBox(r) == <<Trunc(r.bbox[1]), Trunc(r.bbox[2]), Trunc(r.bbox[3]), Trunc(r.bbox[4])>>
ExplicitBoxUsable(r) ==
    /\ HasExplicitBox(r)
    /\ CoercedBox(r)[3] > CoercedBox(r)[1]
    /\ CoercedBox(r)[4] > CoercedBox(r)[2]

(* The points of the line's boundary polygon (attribute boundary, else polygon). *)
PolygonOf(r) == IF r.boundary.kind \in {"flat", "contours"} THEN r.boundary ELSE r.polygon
HasPolygon(r) == PolygonOf(r).kind \in {"flat", "contours"}
PolygonPoints(r) ==
    IF PolygonOf(r).kind = "flat"
    THEN {PolygonOf(r).pts[i] : i \in 1..Len(PolygonOf(r).pts)}
    ELSE UNION {{PolygonOf(r).pts[c][i] : i \in 1..Len(PolygonOf(r).pts[c])} :
                  c \in 1..Len(PolygonOf(r).pts)}
PolygonBox(r) ==
    <<Trunc(SetMin({pt[1] : pt \in PolygonPoints(r)})) - 2,
      Trunc(SetMin({pt[2] : pt \in PolygonPoints(r)})) - 2,
      Trunc(SetMax({pt[1] : pt \in PolygonPoints(r)})) + 2,
      Trunc(SetMax({pt[2] : pt \in PolygonPoints(r)})) + 2>>

WithoutBaseline(r) == [r EXCEPT !.baseline = NoGeom]

(* C6: a line with both an explicit box and a boundary polygon yields the  *)
(* integer-coerced explicit box when that box has x1 > x0 and y1 > y0, and *)
(* the polygon-derived box exactly when it is degenerate; the baseline     *)
(* changes the result only when neither of the two gives a box.  The bbox  *)
(* stored in the emitted record view is that result.                       *)
C6_GeometryPriority ==
    /\ \A i \in 1..Len(kr_records) :
          LET r == kr_records[i]
          IN /\ (HasExplicitBox(r) /\ HasPolygon(r)) =>
                   /\ ExplicitBoxUsable(r) => record_bbox(r) = CoercedBox(r)
                   /\ ~ExplicitBoxUsable(r) => record_bbox(r) = PolygonBox(r)
                   /\ (record_bbox(r) = PolygonBox(r)) <=>
                          (~ExplicitBoxUsable(r) \/ CoercedBox(r) = PolygonBox(r))
             /\ (ExplicitBoxUsable(r) \/ HasPolygon(r)) =>
                   record_bbox(r) = record_bbox(WithoutBaseline(r))
    /\ (Emitted /\ Len(kr_records) = 1 /\ HasExplicitBox(kr_records[1])
            /\ HasPolygon(kr_records[1])) =>
          /\ Len(record_views) = 1
          /\ record_views[1].bbox = IF ExplicitBoxUsable(kr_records[1])
                                    THEN CoercedBox(kr_records[1])
                                    ELSE PolygonBox(kr_records[1])

(* C6 witness: an explicit box that is degenerate only once coerced to     *)
(* integers, a boundary polygon and a baseline: the view carries the       *)
(* polygon's box.                                                          *)
C6_Witness ==
    /\ Emitted
    /\ Len(kr_records) = 1
    /\ kr_records[1].bbox = <<20, 40, 21, 80>>
    /\ kr_records[1].boundary.kind = "contours"
    /\ kr_records[1].baseline.kind = "flat"
    /\ record_views[1].bbox = <<98, 98, 202, 132>>

----------------------------------------------------------------------------
(* THE WIDE-LINE PASS (specification SpecWide) *)

ClaimedLeftBox(bb) == clamp_bbox(<<bb[1], bb[2], im.size[1] \div 2, bb[4]>>, im.size[1], im.size[2])
ClaimedRightBox(bb) == clamp_bbox(<<im.size[1] \div 2, bb[2], bb[3], bb[4]>>, im.size[1], im.size[2])

(* C9: when a single line with bbox (x0, y0, x1, y1) is split by the       *)
(* wide-line pass, the left view's box is x0..W//2 and the right view's    *)
(* box is W//2..x1, with the line's y0 and y1, each clamped to the page.   *)
C9_SplitKeepsOuterEdges ==
    (Emitted /\ Len(kr_records) = 1 /\ Len(record_views) = 2) =>
        /\ record_views[1].bbox = ClaimedLeftBox(InputBoxes[1])
        /\ record_views[2].bbox = ClaimedRightBox(InputBoxes[1])

----------------------------------------------------------------------------
(* THE EXPORT GRID (specification SpecExport) *)

Rendered == pc = "rendered"
ViewBox(i) == record_views[i].bbox
Boxed == {i \in 1..Len(record_views) : ViewBox(i) # None}
PageMid == im.size[1] \div 2

RECURSIVE SplitAtSpaces(_, _, _)
SplitAtSpaces(cell, word, done) ==
    IF cell = <<>> THEN (IF word = <<>> THEN done ELSE Append(done, word))
    ELSE IF Head(cell) = " "
         THEN SplitAtSpaces(Tail(cell), <<>>, IF word = <<>> THEN done ELSE Append(done, word))
         ELSE SplitAtSpaces(Tail(cell), Append(word, Head(cell)), done)

GridTexts == Flatten([k \in 1..Len(grid) |->
                 Flatten([c \in 1..Len(grid[k]) |-> SplitAtSpaces(grid[k][c], <<>>, <<>>)])])
ViewTexts == [i \in 1..Len(record_views) |-> record_views[i].text]
Occurrences(seq, x) == Cardinality({i \in 1..Len(seq) : seq[i] = x})

(* C2: the grid built for export holds the text of every record view       *)
(* exactly once, whether or not the view has a bbox.                       *)
C2_GridHoldsEveryText ==
    Rendered =>
        \A i \in 1..Len(ViewTexts) :
            Occurrences(GridTexts, ViewTexts[i]) = Occurrences(ViewTexts, ViewTexts[i])

OppositeSides(i, j) ==
    \/ ViewBox(i)[3] < PageMid /\ ViewBox(j)[1] > PageMid
    \/ ViewBox(j)[3] < PageMid /\ ViewBox(i)[1] > PageMid
SameSide(i, j) ==
    \/ ViewBox(i)[3] < PageMid /\ ViewBox(j)[3] < PageMid
    \/ ViewBox(i)[1] > PageMid /\ ViewBox(j)[1] > PageMid
InOneRow(i, j) ==
    \E k \in 1..Len(visual_rows) :
        /\ \E m \in 1..Len(visual_rows[k]) : visual_rows[k][m] = i
        /\ \E m \in 1..Len(visual_rows[k]) : visual_rows[k][m] = j

(* C7: two lines on opposite sides of the page's midpoint with the same    *)
(* top y are never in one row, whatever else is on the page.               *)
C7_OppositeSidesNeverShareRow ==
    Rendered =>
        \A i, j \in Boxed :
            (OppositeSides(i, j) /\ ViewBox(i)[2] = ViewBox(j)[2]) => ~InOneRow(i, j)

VerticalOverlap(i, j) ==
    Min2(ViewBox(i)[4], ViewBox(j)[4]) - Max2(ViewBox(i)[2], ViewBox(j)[2])

(* C8: two lines on the same side of the page's midpoint whose boxes       *)
(* overlap vertically by more than half of the height of each are in one   *)
(* row, whatever their height and whatever else is on the page.            *)
C8_OverlappingLinesShareRow ==
    Rendered =>
        \A i, j \in Boxed :
            ( /\ SameSide(i, j)
              /\ 2 * VerticalOverlap(i, j) > bb_h(ViewBox(i))
              /\ 2 * VerticalOverlap(i, j) > bb_h(ViewBox(j)) ) => InOneRow(i, j)

(* C11: when no record view has a bbox the export grid has one row per     *)
(* view, in the order of the views, each row a single cell holding that    *)
(* view's text.                                                            *)
C11_NoBoxGridIsOneColumn ==
    (Rendered /\ Boxed = {}) =>
        /\ Len(grid) = Len(record_views)
        /\ \A i \in 1..Len(record_views) : grid[i] = <<record_views[i].text>>

(* C11 witness: two added lines with different texts and no bbox give the  *)
(* rows [n] and [m] in that order; a single one gives [[n]].               *)
C11_Witness ==
    /\ Rendered
    /\ Boxed = {}
    /\ Len(record_views) = 2
    /\ record_views[1].text = <<"n">>
    /\ record_views[2].text = <<"m">>
    /\ grid = << <<record_views[1].text>>, <<record_views[2].text>> >>

----------------------------------------------------------------------------
(* BANDS AND COLUMNS OF THE TWO-COLUMN PATH (specification SpecBands) *)

TwoColumns == Emitted /\ PathTaken = "two_column"

(* The bucket of every input line, found without looking at the mode. *)
LineBuckets ==
    LET cand == body_candidates(InputBoxes, im.size[1])
    IN buckets_of(InputBoxes, cand, cluster_centers(InputBoxes, cand), im.size[1])

ModeBandOrder ==
    CASE reading_direction = TB_LR -> <<"header", "left", "right", "footer">>
      [] reading_direction = TB_RL -> <<"header", "right", "left", "footer">>
      [] reading_direction = BT_LR -> <<"footer", "left", "right", "header">>
      [] reading_direction = BT_RL -> <<"footer", "right", "left", "header">>
BandRank(bucket) == CHOOSE k \in 1..4 : ModeBandOrder[k] = bucket

(* The band key (center_y, x0), doubled to stay in integers, with the      *)
(* signs of the mode.                                                      *)
BandKeyY(i) ==
    IF BottomToTop THEN -(InputBoxes[i][2] + InputBoxes[i][4])
    ELSE InputBoxes[i][2] + InputBoxes[i][4]
BandKeyLess(i, j) ==
    \/ BandKeyY(i) < BandKeyY(j)
    \/ BandKeyY(i) = BandKeyY(j) /\ ModeKeyX(i) < ModeKeyX(j)
BandKeyEqual(i, j) == BandKeyY(i) = BandKeyY(j) /\ ModeKeyX(i) = ModeKeyX(j)

(* C12: in the two-column path the output is the four bands, each a group  *)
(* of lines that does not depend on the mode, concatenated as header,      *)
(* left, right, footer (TB_LR), header, right, left, footer (TB_RL),       *)
(* footer, left, right, header (BT_LR), footer, right, left, header        *)
(* (BT_RL), each band in the order of its (center_y, x0) key with the      *)
(* signs of the mode.                                                      *)
C12_BandsConcatenatedPerMode ==
    TwoColumns =>
        LET buckets == LineBuckets
            rank == [k \in 1..Len(kr_sorted) |-> BandRank(buckets[kr_sorted[k]])]
        IN /\ SortedSet = HasBox
           /\ NoDuplicates
           /\ \A a, b \in 1..Len(kr_sorted) :
                 a < b => /\ rank[a] <= rank[b]
                          /\ rank[a] = rank[b] => ~BandKeyLess(kr_sorted[b], kr_sorted[a])

(* C12 witness: a header, a footer and two lines in each column, read      *)
(* bottom-to-top and right-to-left: footer, right column, left column,     *)
(* header.                                                                 *)
C12_Witness ==
    /\ TwoColumns
    /\ reading_direction = BT_RL
    /\ Len(kr_records) = 6
    /\ kr_sorted = <<5, 3, 1, 6, 4, 2>>
    /\ LineBuckets = <<"right", "header", "right", "left", "footer", "left">>

----------------------------------------------------------------------------
(* BOXES LEAVING THE CORE (specification SpecWide) *)

NonDegenerate(bb) == bb[3] > bb[1] /\ bb[4] > bb[2]

(* C13: every box that record_bbox returns, and every bbox stored in a     *)
(* record view emitted by the OCR pass, the two boxes of a split line      *)
(* included, has x1 > x0 and y1 > y0 or is None.                           *)
C13_EmittedBoxesNonDegenerate ==
    /\ \A i \in 1..Len(kr_records) :
          record_bbox(kr_records[i]) # None => NonDegenerate(record_bbox(kr_records[i]))
    /\ Emitted =>
          \A k \in 1..Len(record_views) :
              record_views[k].bbox # None => NonDegenerate(record_views[k].bbox)

----------------------------------------------------------------------------
(* COORDINATES THAT ARE NOT NUMBERS (specification SpecUncoercible) *)

HasUncoercible(r) == r.bbox # None /\ \E i \in 1..4 : r.bbox[i] = NotANumber
ZeroedBox(r) == [i \in 1..4 |-> IF r.bbox[i] = NotANumber THEN 0 ELSE Trunc(r.bbox[i])]

(* C14: when a coordinate of the explicit box cannot be coerced to an      *)
(* integer it is taken as 0: the box with that 0 is the line's bbox when   *)
(* it has x1 > x0 and y1 > y0, and the emitted view carries it.            *)
C14_FailingCoordinateIsZero ==
    Emitted =>
        /\ \A i \in 1..Len(kr_records) :
              (HasUncoercible(kr_records[i]) /\ NonDegenerate(ZeroedBox(kr_records[i])))
                  => record_bbox(kr_records[i]) = ZeroedBox(kr_records[i])
        /\ (Len(kr_records) = 1 /\ HasUncoercible(kr_records[1])
                /\ NonDegenerate(ZeroedBox(kr_records[1])))
              => record_views[1].bbox = ZeroedBox(kr_records[1])

----------------------------------------------------------------------------
(* STABILITY OF THE SORTS (specification SpecStability) *)

Sorted == pc \in {"emitted", "rendered"} /\ kr_records # <<>>

(* Two lines, with boxes bi and bj, that the sort of the path taken cannot *)
(* tell apart: the same bucket and (center_y, x0) in the two-column path,  *)
(* the same (y0, x0) otherwise.                                            *)
SameSortKey(two_columns, buckets, i, j, bi, bj) ==
    IF two_columns
    THEN /\ buckets[i] = buckets[j]
         /\ bi[2] + bi[4] = bj[2] + bj[4]
         /\ bi[1] = bj[1]
    ELSE /\ bi[2] = bj[2]
         /\ bi[1] = bj[1]

ReadingOrderStable ==
    LET boxes == InputBoxes
        two_columns == sort_path(boxes, im.size[1]) = "two_column"
        buckets == IF two_columns THEN LineBuckets ELSE <<>>
    IN \A a, b \in 1..Len(kr_sorted) :
          (a < b /\ SameSortKey(two_columns, buckets, kr_sorted[a], kr_sorted[b],
                                boxes[kr_sorted[a]], boxes[kr_sorted[b]]))
              => kr_sorted[a] < kr_sorted[b]

(* Row members with equal left edges stay as group_rows_by_y appended      *)
(* them: by top edge, then by position in the list of views.               *)
RowMembersStable ==
    \A k \in 1..Len(visual_rows) : \A m, n \in 1..Len(visual_rows[k]) :
        LET i == visual_rows[k][m]
            j == visual_rows[k][n]
        IN (m < n /\ ViewBox(i)[1] = ViewBox(j)[1])
              => \/ ViewBox(i)[2] < ViewBox(j)[2]
                 \/ ViewBox(i)[2] = ViewBox(j)[2] /\ i < j

(* Columns with equal final anchors stay in the order they were created. *)
ColumnsStable ==
    LET made == cluster_loop(record_views, 1, <<>>)
        cols == cluster_columns(record_views)
        Made(c) == CHOOSE k \in 1..Len(made) : made[k].items = cols[c]
    IN /\ Len(cols) = Len(made)
       /\ \A c, d \in 1..Len(cols) :
             c < d => \/ made[Made(c)].x < made[Made(d)].x
                      \/ made[Made(c)].x = made[Made(d)].x /\ Made(c) < Made(d)

(* C15: the sorts are stable.  In the output of                            *)
(* sort_records_reading_order two lines of the same band, or of the        *)
(* single-column orders, with equal sort keys are in their input order, in *)
(* every mode; columns with equal anchors and row members with equal left  *)
(* edges keep the order they had before the sort.                          *)
C15_SortsAreStable ==
    /\ Sorted => ReadingOrderStable
    /\ Rendered => (RowMembersStable /\ ColumnsStable)

(* C15 witness: the same thin fragment yielded twice after six column      *)
(* lines, read bottom-to-top and right-to-left: the two stay in input      *)
(* order in the output, and their views in view order in their row.        *)
C15_Witness ==
    /\ Rendered
    /\ PathTaken = "two_column"
    /\ reading_direction = BT_RL
    /\ Len(kr_records) = 8
    /\ kr_records[7] = kr_records[8]
    /\ InputBoxes[7] # None
    /\ Pos(7) + 1 = Pos(8)
    /\ \E k \in 1..Len(visual_rows) : \E m \in 1..(Len(visual_rows[k]) - 1) :
          /\ visual_rows[k][m] = Pos(7)
          /\ visual_rows[k][m + 1] = Pos(8)

(* Two columns whose anchors end equal, 146, in the order of their creation. *)
DriftColumnsRendered ==
    /\ Rendered
    /\ Len(record_views) = 8
    /\ cluster_loop(record_views, 1, <<>>)[1].x = cluster_loop(record_views, 1, <<>>)[2].x
    /\ cluster_columns(record_views) = << <<1, 3, 4, 5, 6, 7, 8>>, <<2>> >>

----------------------------------------------------------------------------
(* INPUTS LEFT ALONE AND VIEW NUMBERING (specification Spec) *)

(* C16: sort_records_reading_order and table_to_rows leave their inputs    *)
(* unchanged: across the step that sorts, the list of records is the same  *)
(* list in the same order, and the output names each of its lines by       *)
(* position, none twice; across the step that renders, the list of views   *)
(* is the same, every idx, text and bbox included.                         *)
C16_InputsUnchanged ==
    [][ /\ (pc = "rpred" /\ pc' = "emitted")
            => /\ kr_records' = kr_records
               /\ \A k \in 1..Len(kr_sorted') : kr_sorted'[k] \in 1..Len(kr_records)
               /\ \A k, l \in 1..Len(kr_sorted') : kr_sorted'[k] = kr_sorted'[l] => k = l
        /\ (pc = "emitted" /\ pc' = "rendered") => record_views' = record_views ]_vars

(* C16 witness: the sort put the second record first, two views were made  *)
(* of the records and the grid was rendered from them.                     *)
C16_Witness ==
    /\ pc = "rendered"
    /\ kr_sorted = <<2, 1>>
    /\ kr_records[1].bbox[2] > kr_records[2].bbox[2]
    /\ Len(record_views) >= 2
    /\ grid # <<>>

(* C17: at every moment the views can be observed, after the OCR pass       *)
(* (lines split or skipped included), after every edit and after every     *)
(* undo and redo, the view at position i of the list has idx i, counted    *)
(* from 0.                                                                 *)
C17_IdxIsPosition ==
    \A i \in 1..Len(record_views) : record_views[i].idx = i - 1

(* C17 witness: a wide line was split and a line without prediction        *)
(* skipped, the views were edited into another order or number and the     *)
(* edit was undone: the views are the two halves again, numbered 0 and 1.  *)
C17_Witness ==
    /\ \E k \in 1..Len(kr_records) : kr_records[k].prediction = NonePrediction
    /\ Len(record_views) = 2
    /\ Len(record_views) > Len(kr_records) - 1
    /\ undo_stack = <<>>
    /\ redo_stack # <<>>
    /\ _snapshot_recs(record_views) # redo_stack[Len(redo_stack)]

----------------------------------------------------------------------------
(* PADDING OF A BASELINE (specification SpecGeometry) *)

(* The line has a baseline of integer points and nothing else that gives a *)
(* box.                                                                    *)
OnlyIntegerBaseline(r) ==
    /\ ~ExplicitBoxUsable(r)
    /\ ~HasPolygon(r)
    /\ r.baseline.kind = "flat"
    /\ r.baseline.pts # <<>>
    /\ \A i \in 1..Len(r.baseline.pts) :
          r.baseline.pts[i][1] % 2 = 0 /\ r.baseline.pts[i][2] % 2 = 0

BaselineXs(r) == {r.baseline.pts[i][1] \div 2 : i \in 1..Len(r.baseline.pts)}
BaselineYs(r) == {r.baseline.pts[i][2] \div 2 : i \in 1..Len(r.baseline.pts)}

(* C18: for a line whose only usable geometry is a baseline with integer   *)
(* points, record_bbox returns (min x - 2, min y - 14, max x + 2,          *)
(* max y + 14), and the view emitted for the line carries that box.        *)
C18_BaselinePadding ==
    (Emitted /\ Len(kr_records) = 1 /\ OnlyIntegerBaseline(kr_records[1])) =>
        LET r == kr_records[1]
            claimed == <<SetMin(BaselineXs(r)) - 2, SetMin(BaselineYs(r)) - 14,
                         SetMax(BaselineXs(r)) + 2, SetMax(BaselineYs(r)) + 14>>
        IN /\ record_bbox(r) = claimed
           /\ Len(record_views) = 1
           /\ record_views[1].bbox = claimed

----------------------------------------------------------------------------
(* BODY CANDIDATES (specification SpecCandidates) *)

(* C19: a line is a body candidate exactly when its bbox height is >= 14   *)
(* and four times its bbox width is less than three times the image width, *)
(* for every integer image width.                                          *)
C19_BodyCandidateThreshold ==
    Emitted =>
        LET boxes == InputBoxes
        IN \A i \in 1..Len(boxes) :
              boxes[i] # None =>
                 (is_body_candidate(boxes[i], im.size[1]) <=>
                     /\ boxes[i][4] - boxes[i][2] >= 14
                     /\ (boxes[i][3] - boxes[i][1]) * 4 < im.size[1] * 3)

----------------------------------------------------------------------------
(* BAND CLASSIFICATION (specification SpecBands) *)

(* The k-th smallest, k from 1, of the values of a non-empty sequence. *)
KthSmallest(vals, k) ==
    CHOOSE v \in {vals[i] : i \in 1..Len(vals)} :
        /\ Cardinality({i \in 1..Len(vals) : vals[i] < v}) < k
        /\ Cardinality({i \in 1..Len(vals) : vals[i] <= v}) >= k

(* A hundred times the p-th percentile of the values, interpolated         *)
(* linearly between the two ranks around (n - 1) * p / 100.                *)
Percentile100(vals, p) ==
    LET n == Len(vals)
        lower == ((n - 1) * p) \div 100
        part == ((n - 1) * p) % 100
        upper == IF lower + 1 < n THEN lower + 1 ELSE n - 1
    IN 100 * KthSmallest(vals, lower + 1)
         + part * (KthSmallest(vals, upper + 1) - KthSmallest(vals, lower + 1))

(* The band the claim gives a line with box bb, the body candidates being  *)
(* the lines of cand.                                                      *)
ClaimedBand(boxes, cand, bb) ==
    LET top100 == Percentile100([k \in 1..Len(cand) |-> boxes[cand[k]][2]], 8)
        bottom100 == Percentile100([k \in 1..Len(cand) |-> boxes[cand[k]][4]], 92)
    IN IF bb[4] - bb[2] < 14 THEN "midband"
       ELSE IF 100 * bb[4] < top100 - 1000 THEN "header"
       ELSE IF 100 * bb[2] > bottom100 + 1000 THEN "footer"
       ELSE "midband"

BandOfBucket(bucket) == IF bucket \in {"left", "right"} THEN "midband" ELSE bucket

(* C20: in the two-column path every line with a bbox is classified: a     *)
(* line less than 14 high is midband wherever it is, any other line is     *)
(* header when its bottom edge is above body_top - 10, footer when its top *)
(* edge is below body_bottom + 10, midband otherwise, body_top and         *)
(* body_bottom being the 8th and 92nd percentile of the body candidates'   *)
(* top and bottom edges; each such line is in the output exactly once, in  *)
(* the place of its one band.                                              *)
C20_BandClassification ==
    TwoColumns =>
        LET boxes == InputBoxes
            cand == body_candidates(boxes, im.size[1])
            buckets == LineBuckets
        IN /\ \A i \in 1..Len(boxes) :
                 boxes[i] # None =>
                    /\ BandOfBucket(buckets[i]) = ClaimedBand(boxes, cand, boxes[i])
                    /\ Cardinality({k \in 1..Len(kr_sorted) : kr_sorted[k] = i}) = 1
           /\ \A k \in 1..Len(kr_sorted) : boxes[kr_sorted[k]] # None

(* C20 witness: a two-column page with a header line, a footer line and a  *)
(* thin fragment lying above the header margin, which is midband.          *)
C20_Witness ==
    /\ TwoColumns
    /\ LET boxes == InputBoxes
           cand == body_candidates(boxes, im.size[1])
           buckets == LineBuckets
           top == body_top(boxes, cand)
       IN /\ \E i \in 1..Len(boxes) : boxes[i] # None /\ buckets[i] = "header"
          /\ \E i \in 1..Len(boxes) : boxes[i] # None /\ buckets[i] = "footer"
          /\ \E i \in 1..Len(boxes) :
                /\ boxes[i] # None
                /\ boxes[i][4] - boxes[i][2] < 14
                /\ FracLt(FracInt(boxes[i][4]), FracSub(top, FracInt(10)))
                /\ buckets[i] \in {"left", "right"}

----------------------------------------------------------------------------
(* COLUMNS OF THE MIDBAND (specification SpecFullwidth) *)

(* The bucket the claim gives a midband line with box bb on a page w wide, *)
(* cc being the two final cluster centres.                                 *)
ClaimedColumn(bb, cc, w) ==
    LET centre == Frac(bb[1] + bb[3], 2)
    IN IF (bb[3] - bb[1]) * 4 >= w * 3 THEN "left"
       ELSE IF FracLe(FracAbs(FracSub(centre, cc[1])), FracAbs(FracSub(centre, cc[2])))
       THEN "left"
       ELSE "right"

(* C21: in the midband every line at least 75% of the image width wide is  *)
(* in the left-column bucket wherever its centre is, and every other       *)
(* midband line is in the bucket of the nearer of the two final cluster    *)
(* centres, the left one when it is as far from one as from the other.     *)
C21_MidbandColumns ==
    TwoColumns =>
        LET boxes == InputBoxes
            cand == body_candidates(boxes, im.size[1])
            cc == cluster_centers(boxes, cand)
            buckets == LineBuckets
        IN \A i \in 1..Len(boxes) :
              (boxes[i] # None /\ buckets[i] \in {"left", "right"}) =>
                  buckets[i] = ClaimedColumn(boxes[i], cc, im.size[1])

----------------------------------------------------------------------------
(* COLUMNS OF THE TABLE (specification SpecExport) *)

(* The columns, in the order of their creation, after the first n views. *)
ColumnsAfter(n) == cluster_loop(SubSeq(record_views, 1, n), 1, <<>>)

(* The n-th view is taken as the claim says: skipped without a bbox,       *)
(* joined to the first-created column whose anchor is within 45 of its     *)
(* left edge, the anchor becoming int(0.8 * anchor + 0.2 * x), or put in a *)
(* new column anchored at x.                                               *)
StepAsClaimed(before, after, n) ==
    IF record_views[n].bbox = None THEN after = before
    ELSE LET x == record_views[n].bbox[1]
             near == {c \in 1..Len(before) :
                         before[c].x - x <= 45 /\ x - before[c].x <= 45}
         IN IF near = {}
            THEN after = Append(before, [x |-> x, items |-> <<n>>])
            ELSE LET c == SetMin(near)
                 IN /\ Len(after) = Len(before)
                    /\ \A d \in 1..Len(before) : d # c => after[d] = before[d]
                    /\ after[c].items = Append(before[c].items, n)
                    /\ after[c].x * 5 <= 4 * before[c].x + x
                    /\ 4 * before[c].x + x < (after[c].x + 1) * 5

(* C22: cluster_columns takes the views in the given order, each as        *)
(* StepAsClaimed says; its result is a partition of the views that have a  *)
(* bbox, every such view in exactly one column and no other view in any,   *)
(* the columns in ascending order of their final anchors.                  *)
C22_ClusterColumns ==
    Rendered =>
        LET cols == cluster_columns(record_views)
            made == ColumnsAfter(Len(record_views))
        IN /\ \A n \in 1..Len(record_views) :
                 StepAsClaimed(ColumnsAfter(n - 1), ColumnsAfter(n), n)
           /\ \A i \in 1..Len(record_views) :
                 Cardinality({<<c, m>> \in (1..Len(cols)) \X (1..Len(record_views)) :
                                 m <= Len(cols[c]) /\ cols[c][m] = i})
                    = IF record_views[i].bbox = None THEN 0 ELSE 1
           /\ Len(cols) = Len(made)
           /\ \A c \in 1..Len(cols) : \E k \in 1..Len(made) : made[k].items = cols[c]
           /\ \A c, d \in 1..Len(cols) : \A k, l \in 1..Len(made) :
                 (c < d /\ made[k].items = cols[c] /\ made[l].items = cols[d])
                     => made[k].x <= made[l].x

(* C22 witness: eight views of which the third is within 45 of the anchors *)
(* of both columns made so far and joins the first, and whose two columns, *)
(* both anchored at 146 in the end, are rendered.                          *)
C22_Witness ==
    /\ Rendered
    /\ Len(record_views) = 8
    /\ Len(ColumnsAfter(2)) = 2
    /\ \A c \in 1..2 : Abs(ColumnsAfter(2)[c].x - record_views[3].bbox[1]) <= 45
    /\ ColumnsAfter(3)[1].items = <<1, 3>>
    /\ Len(cluster_columns(record_views)) = 2

----------------------------------------------------------------------------
(* CELLS OF THE TABLE (specification SpecExport) *)

(* The final running anchors of the columns, in the order of the columns. *)
FinalAnchors ==
    LET made == ColumnsAfter(Len(record_views))
        by_x == sorted([c \in 1..Len(made) |-> <<<<made[c].x>>, made[c].x>>])
    IN by_x

(* The column whose running anchor is nearest to x, the lowest on a tie. *)
NearestAnchor(anchors, x) ==
    CHOOSE c \in 1..Len(anchors) :
        /\ \A d \in 1..Len(anchors) : Abs(anchors[c] - x) <= Abs(anchors[d] - x)
        /\ \A d \in 1..(c - 1) : Abs(anchors[d] - x) > Abs(anchors[c] - x)

RECURSIVE JoinWithSpace(_)
JoinWithSpace(texts) ==
    IF texts = <<>> THEN <<>>
    ELSE IF Len(texts) = 1 THEN texts[1]
    ELSE texts[1] \o <<" ">> \o JoinWithSpace(Tail(texts))

(* The texts of the members of row k whose nearest running anchor is that  *)
(* of column c, from left to right.                                        *)
ClaimedCell(anchors, k, c) ==
    LET mine == SelectIdx(Len(visual_rows[k]), 1,
                    {m \in 1..Len(visual_rows[k]) :
                        NearestAnchor(anchors, ViewBox(visual_rows[k][m])[1]) = c})
    IN JoinWithSpace([m \in 1..Len(mine) |-> record_views[visual_rows[k][mine[m]]].text])

(* C23: in the grid of table_to_rows the text of every line is in the cell *)
(* of the column whose running anchor, as cluster_columns computed it, is  *)
(* nearest to the line's left edge, the lowest column on a tie; the texts  *)
(* of one cell are joined from left to right with one space each.          *)
C23_CellOfNearestAnchor ==
    (Rendered /\ Boxed # {}) =>
        LET anchors == FinalAnchors
        IN \A k \in 1..Len(visual_rows) : \A c \in 1..Len(anchors) :
              /\ k <= Len(grid)
              /\ c <= Len(grid[k])
              /\ grid[k][c] = ClaimedCell(anchors, k, c)

(* C24: every row of the grid returned by table_to_rows has the same       *)
(* length, the number of columns found by cluster_columns or 1 when there  *)
(* is none, and the grid has one row for each visual row found by          *)
(* group_rows_by_y.                                                        *)
C24_GridIsRectangular ==
    (Rendered /\ Boxed # {}) =>
        LET columns == Len(cluster_columns(record_views))
        IN /\ visual_rows = group_rows_by_y(record_views, im.size[1])
           /\ Len(grid) = Len(visual_rows)
           /\ \A k \in 1..Len(grid) :
                 Len(grid[k]) = IF columns >= 1 THEN columns ELSE 1

(* C24 witness: a grid of two rows and two columns with an empty cell. *)
C24_Witness ==
    /\ Rendered
    /\ Len(grid) = 2
    /\ Len(cluster_columns(record_views)) = 2
    /\ \E k \in 1..2 : \E c \in 1..2 : grid[k][c] = <<>> /\ grid[k][3 - c] # <<>>

(* C26: the text of every line with a bbox is placed in the grid column of *)
(* the cluster it belongs to: the column index table_to_rows chooses for   *)
(* it is the index of the column of cluster_columns that contains it.      *)
C26_CellIsOwnCluster ==
    Rendered =>
        LET cols == cluster_columns(record_views)
            col_x == column_xs(record_views)
        IN \A i \in Boxed : \A c \in 1..Len(cols) :
              (\E m \in 1..Len(cols[c]) : cols[c][m] = i)
                  => nearest_col(col_x, ViewBox(i)[1]) = c

----------------------------------------------------------------------------
(* TEXTS OF THE WIDE-LINE PASS (specification SpecWide) *)

Blank(txt, i) == txt[i] = " "

(* The text from its first to its last character that is not blank. *)
Stripped(txt) ==
    LET inked == {i \in 1..Len(txt) : ~Blank(txt, i)}
    IN IF inked = {} THEN <<>> ELSE SubSeq(txt, SetMin(inked), SetMax(inked))

(* Where runs of two or more blanks begin. *)
RunStarts(txt) ==
    {i \in 1..(Len(txt) - 1) :
        Blank(txt, i) /\ Blank(txt, i + 1) /\ (i = 1 \/ ~Blank(txt, i - 1))}

(* The texts of the views the claim gives a line with a prediction. *)
ClaimedTexts(r, page_w) ==
    LET txt == r.prediction
        bb == record_bbox(r)
    IN IF bb # None /\ (bb[3] - bb[1]) * 5 > page_w * 4 /\ RunStarts(txt) # {}
       THEN LET first == SetMin(RunStarts(txt))
            IN <<Stripped(SubSeq(txt, 1, first - 1)),
                 Stripped(SubSeq(txt, first, Len(txt)))>>
       ELSE <<txt>>

RECURSIVE ClaimedViewTexts(_, _, _)
ClaimedViewTexts(records, order, page_w) ==
    IF order = <<>> THEN <<>>
    ELSE (IF records[Head(order)].prediction = NonePrediction THEN <<>>
          ELSE ClaimedTexts(records[Head(order)], page_w))
         \o ClaimedViewTexts(records, Tail(order), page_w)

(* C25: the views emitted are, line by line in the sorted order, the views *)
(* of each line that has a prediction: for a line with a bbox wider than   *)
(* 80% of the page whose text has a run of two or more blanks, exactly two *)
(* views, the text before the first such run and all the text after it,    *)
(* each stripped, however many runs there are; for every other line        *)
(* exactly one view with the text unchanged.                               *)
C25_SplitAtFirstWideGap ==
    Emitted =>
        LET claimed == ClaimedViewTexts(kr_records, kr_sorted, im.size[1])
        IN /\ Len(record_views) = Len(claimed)
           /\ \A i \in 1..Len(claimed) : record_views[i].text = claimed[i]

(* C25 witness: a wide line whose text has two wide gaps gave two views,   *)
(* the second with the second gap still in its text.                       *)
C25_Witness ==
    /\ Emitted
    /\ Len(kr_records) = 1
    /\ Cardinality(RunStarts(kr_records[1].prediction)) = 2
    /\ Len(record_views) = 2
    /\ record_views[1].text = <<"A">>
    /\ record_views[2].text = <<"B", " ", " ", "C">>

----------------------------------------------------------------------------
(* THE UNDO HISTORY.                                                        *)

WithinLimit ==
    /\ Len(undo_stack) <= UNDO_LIMIT
    /\ Len(undo_stack) + Len(redo_stack) <= UNDO_LIMIT

(* A step of a handler that edits the views. *)
EditHandler ==
    \/ _move_line
    \/ _move_line_to
    \/ on_lines_reordered
    \/ _delete_line
    \/ _add_line
    \/ on_canvas_edit_box
    \/ on_canvas_delete_box
    \/ on_box_drawn
    \/ on_overlay_rect_changed
    \/ on_line_item_edited

(* C27: after any sequence of edits, undos, redos and reprocessing of the  *)
(* file, the undo stack of a task holds at most 300 snapshots and the undo *)
(* and redo stacks together hold at most 300; every edit that pushes a     *)
(* snapshot leaves the redo stack empty (no step that changes the undo     *)
(* stack and leaves snapshots on the redo stack is a step of an edit).     *)
C27_StacksWithinLimit ==
    [][/\ WithinLimit
       /\ WithinLimit'
       /\ (redo_stack' # <<>> /\ undo_stack' # undo_stack) => ~EditHandler]_vars

(* C27 witness: an edit was pushed onto a full stack: the stack holds 300  *)
(* snapshots and the oldest one, of the order first read, is gone.         *)
C27_Witness ==
    /\ im.page = "history"
    /\ Len(undo_stack) = UNDO_LIMIT
    /\ undo_stack[1] = HistorySwapped
    /\ redo_stack = <<>>

(* The texts and boxes of the views, in order. *)
Pairs(recs) == [i \in 1..Len(recs) |-> <<recs[i].text, recs[i].bbox>>]

----------------------------------------------------------------------------
(* THE WORKERS.                                                             *)

(* C29: at most one OCR worker is running at any time, however start_ocr,  *)
(* reprocess_selected, stop_ocr and the signals of the workers interleave. *)
C29_OneWorkerRunning ==
    \A w1, w2 \in 1..Len(workers) : (isRunning(w1) /\ isRunning(w2)) => w1 = w2

(* C30: a task whose status is STATUS_PROCESSING eventually has another    *)
(* status (done, error, or waiting again after reprocess_selected), also   *)
(* when stop_ocr interrupts the batch.                                     *)
C30_ProcessingEnds ==
    \A path \in QueuePaths :
        (queue_items[path] = STATUS_PROCESSING) ~> (queue_items[path] # STATUS_PROCESSING)

====
